---- MODULE Spec2Model ----
(***************************************************************************)
(* Model of the RAEC acoustic echo canceller (src/src/processing.rs and    *)
(* its callers src/src/bin/main.rs, src/src/benches/my_benchmark.rs).      *)
(*                                                                         *)
(* Samples (f32 in the source) are integers in the rings.  The stereo      *)
(* inputs are drawn from odd integers so that 0.5 * (l + r) is exact.      *)
(* The arithmetic of the adaptive filter has its own f32 values, with the  *)
(* infinities and NaN.                                                     *)
(*                                                                         *)
(* The specifications share the variables:                                 *)
(*   Spec        the processing thread, started once, and the three audio  *)
(*               callbacks, all interleaved;                               *)
(*   SpecSched   the caller (start_thread / kill), the processing thread   *)
(*               and the microphone callback, which unparks;               *)
(*   SpecDownmix Stereo2MonoCapture::callback against a consumer that pops *)
(*               (the harness of benches/my_benchmark.rs);                 *)
(*   SpecUpmix   Mono2StereoOutput::callback against a producer that       *)
(*               pushes (same harness);                                    *)
(*   SpecAdapt   NLMF::adapt called on a filter, as the benchmark and the  *)
(*               engine call it;                                           *)
(*   SpecEngine  the processing thread with its delay line and telemetry   *)
(*               tracked, and the microphone callback;                     *)
(*   SpecEcho    SpecEngine fed one stream as microphone and reference;    *)
(*   SpecStart   SpecSched under fair scheduling;                          *)
(*   SpecDrain   the processing thread, woken at any time, and the three   *)
(*               audio callbacks;                                          *)
(*   SpecTelemetry  SpecDrain with telemetry on;                           *)
(*   SpecKill    SpecStart where join() returns once the thread has ended; *)
(*   SpecBiquad  Filter::tick called on a filter Filter::new has built;    *)
(*   SpecOrder   the processing thread and the two capture callbacks, the   *)
(*               samples told apart and their order kept;                  *)
(*   SpecRestart the caller starting, killing and restarting an engine     *)
(*               whose delay line and biquads are followed.                *)
(***************************************************************************)
EXTENDS Integers, Sequences, FiniteSets, TLC

(* ------------------------------ bounds -------------------------------- *)

\* number of tick() calls a behaviour of SpecBiquad makes
MaxTicks == 3
\* once the reference callback has enqueued this many samples under
\* SpecOrder, it is not called again
MaxTraced == 2

\* capacity of the three ring buffers under Spec (latency_samples * 2)
RingCap == 2
\* number of start_thread() calls a behaviour may make
MaxStarts == 2
\* capacity of the ring buffer under SpecDownmix and SpecUpmix
BenchCap == 2
\* number of blocks the host delivers to the microphone callback
MaxMicBlocks == 1
\* longest block handed to Stereo2MonoCapture::callback under SpecDownmix,
\* in stereo pairs
MaxInPairs == 3
\* longest block handed to Mono2StereoOutput::callback under SpecUpmix,
\* in stereo pairs
MaxOutPairs == 2

\* number of adapt() calls a behaviour of SpecAdapt may make
MaxAdaptCalls == 2

\* a slot of the output block the callback has not written yet
Junk == 99

VARIABLES
    \* ---- ring buffers (ringbuf::RingBuffer<f32>), [capacity, items]
    mic_buffer,        \* microphone samples: input_processing -> engine
    capture_buffer,    \* reference samples: capture_processing -> engine
    output_buffer,     \* filtered samples: engine -> output_processing
    \* ---- the caller of start_thread / kill (bin/main.rs)
    main_pc,           \* "idle" | "spin" | "running" | "storing" | "join"
                       \* | "dropped" | "panicked"
    ret_handle,        \* Thread handle returned by start_thread, 0 = none
    shared_slot,       \* shared_parking_thread_handle: 0 = None, else thread id
    mutex,             \* owner of the shared slot's mutex: "free" | "main"
    \* ---- start_thread / the processing thread
    gen,               \* id of the last spawned thread, 0 = none yet
    published,         \* start_thread's local thread_handle slot, 0 = None
    proc_pc,           \* position of the thread in process()
    token,             \* park token of the current thread
    counter,           \* local `counter` of process()
    fill_left,         \* iterations left of the silence loop
    mic_sample,        \* local mic_sample
    capture_sample,    \* local capture_sample
    filtered,          \* local filtered
    sig_pending,       \* messages in the kill-signal channel
    sender_alive,      \* kill_signal_sender not dropped
    debug_channel,     \* debug_channel is Some
    plot_rx_alive,     \* the telemetry receiver is not dropped
    \* ---- input_processing: Stereo2MonoCapture with parking (microphone)
    mc_pc, mc_data, mc_k, mc_fell,
    mc_calls,          \* blocks delivered to input_processing so far
    \* ---- capture_processing: Stereo2MonoCapture without parking
    cc_pc, cc_data, cc_k, cc_fell,
    cc_log,            \* history: <<value, pushed?>> per pair of this call
    cc_ring0,          \* history: items of the ring when this call began
    bench_popped,      \* history: values the harness popped during this call
    \* ---- output_processing: Mono2StereoOutput
    pc_pc, pc_data, pc_i, pc_flag, pc_last, pc_fell,
    pc_log,            \* history: <<value, popped?>> per pop of this call
    pc_ring0,          \* history: items of the ring when this call began
    setup,             \* how the run was set up (never changes): whether the
                       \* history variables of the callbacks and of the
                       \* telemetry are kept, whether the biquads of the
                       \* engine are followed, and how many zeros the input
                       \* rings and the output ring held at first
    \* ---- the adaptive filter (nlmf.rs) and a call of adapt()
    nlmf_filter,       \* NLMF: [weights, mu, eps]
    ad,                \* the current call of adapt(): its arguments and results,
                       \* next to those of a second filter in the same state
                       \* called with another threshold
    \* ---- the delay line of the engine and what it hands to adapt()
    filter_buffer,     \* CircularQueue<f32>, in the order pushed (oldest first)
    filter_input,      \* local filter_input of process(): the last window
    ref_hist,          \* history: the reference samples pushed so far
    tel,               \* history: telemetry tuples sent, samples processed
                       \* since the last one, as many between the last two, and
                       \* the fill ratios of the tuple the iteration under way
                       \* has sent
    io,                \* history: samples the engine has popped from the
                       \* microphone ring and from the reference ring, and
                       \* filtered samples it has pushed
    \* ---- the biquads of the engine (filter.rs) and a call of tick()
    lowpass_filter,    \* Filter: the four delay elements, the coefficients
    highpass_fiter,    \* Filter, likewise
    tk,                \* the calls of tick() made on lowpass_filter: how
                       \* many, the argument and the result of the last one,
                       \* the filter as that call found it and the
                       \* coefficients Filter::new gave it
    trace              \* history, kept where `on`: the samples each capture
                       \* callback has enqueued, the samples the engine has
                       \* popped from each input ring, and the pair of
                       \* samples behind each filtered sample it has pushed

ringVars == <<mic_buffer, capture_buffer, output_buffer>>
mainVars == <<main_pc, ret_handle, shared_slot, mutex>>
sigVars  == <<sig_pending, sender_alive>>
dbgVars  == <<debug_channel, plot_rx_alive>>
procLocals == <<counter, fill_left, mic_sample, capture_sample, filtered>>
procVars == <<gen, published, proc_pc, token, procLocals>>
micCbVars == <<mc_pc, mc_data, mc_k, mc_fell, mc_calls>>
capCbVars == <<cc_pc, cc_data, cc_k, cc_fell, cc_log, cc_ring0, bench_popped>>
playCbVars == <<pc_pc, pc_data, pc_i, pc_flag, pc_last, pc_fell, pc_log, pc_ring0>>
nlmfVars == <<nlmf_filter, ad>>
delayVars == <<filter_buffer, filter_input, ref_hist, tel, io>>
dspVars == <<nlmfVars, delayVars>>
biquadVars == <<lowpass_filter, highpass_fiter, tk>>
vars == <<ringVars, mainVars, sigVars, dbgVars, procVars,
          micCbVars, capCbVars, playCbVars, setup, dspVars, biquadVars, trace>>

(* --------------------------- ring buffers ----------------------------- *)

\* the order history is not kept
NoTrace == [on |-> FALSE, mic |-> <<>>, ref |-> <<>>,
            pmic |-> <<>>, pref |-> <<>>, out |-> <<>>]

\* the order history before anything has run
EmptyTrace == [NoTrace EXCEPT !.on = TRUE]

Min(a, b) == IF a < b THEN a ELSE b

\* a ring into which n zeros have been pushed (bin/main.rs:211-218)
Prefilled(cap, n) == [capacity |-> cap, items |-> [i \in 1..n |-> 0]]

RingLen(r) == Len(r.items)
RingIsEmpty(r) == r.items = <<>>
RingIsFull(r) == Len(r.items) = r.capacity

\* push on a ring that ignores the capacity (used to mutate RingPush)
RingPushUnbounded(r, v) ==
    [ok |-> TRUE, ring |-> [r EXCEPT !.items = Append(@, v)]]

\* push that puts the sample in front (used to mutate RingPush)
RingPushFront(r, v) ==
    IF Len(r.items) < r.capacity
    THEN [ok |-> TRUE, ring |-> [r EXCEPT !.items = <<v>> \o @]]
    ELSE [ok |-> FALSE, ring |-> r]

\* Producer::push: Err(value) when full, else the value goes to the back
RingPush(r, v) ==
    IF Len(r.items) < r.capacity
    THEN [ok |-> TRUE, ring |-> [r EXCEPT !.items = Append(@, v)]]
    ELSE [ok |-> FALSE, ring |-> r]

\* Consumer::pop: Err when empty, else the front value
RingPop(r) ==
    IF r.items /= <<>>
    THEN [ok |-> TRUE, val |-> Head(r.items),
          ring |-> [r EXCEPT !.items = Tail(@)]]
    ELSE [ok |-> FALSE, val |-> 0, ring |-> r]

(* ------------------- Stereo2MonoCapture: the pairs --------------------- *)

\* data.iter().step_by(2): elements 0, 2, 4, ... (1, 3, 5, ... here)
StepBy2(data) == [j \in 1..((Len(data) + 1) \div 2) |-> data[2 * j - 1]]

\* .skip(1)
Skip1(s) == SubSeq(s, 2, Len(s))

\* a.zip(b): stops with the shorter
Zip(a, b) == [j \in 1..Min(Len(a), Len(b)) |-> <<a[j], b[j]>>]

\* pairs of an interleaved block as the spec words them: (data[2k], data[2k+1])
PairsLeftRight(data) == [j \in 1..(Len(data) \div 2) |-> <<data[2 * j - 1], data[2 * j]>>]

\* data.iter().step_by(2).zip(data.iter().step_by(2).skip(1))
Pairs(data) == Zip(StepBy2(data), Skip1(StepBy2(data)))

\* let merged_sample = 0.5 * (input_l + input_r)
Merged(p) == (p[1] + p[2]) \div 2

(* --------------------------- input domains ---------------------------- *)

\* blocks of `len` samples over the values `vals`
BlocksOf(vals, len) == [1..len -> vals]

\* blocks the host delivers to the reference callback under Spec
CapBlocks == BlocksOf({1}, 4)

\* blocks the host delivers to the microphone callback under Spec, SpecSched
MicBlocks == BlocksOf({1}, 4) \cup BlocksOf({1}, 6)

\* blocks handed to Stereo2MonoCapture::callback under SpecDownmix
DownmixBlocks ==
    UNION {BlocksOf({1, 3}, 2 * m) : m \in 1..MaxInPairs} \cup {<<1, 3, 5, 7>>}

\* lengths of the blocks handed to Mono2StereoOutput::callback under SpecUpmix
UpmixLens == {2 * m : m \in 1..MaxOutPairs}

\* samples the harness pushes under SpecUpmix
MonoVals == {2, 4}

\* values the engine's filter chain may produce for one sample
FilteredVals == {1}

\* values adapt() may return as aec_output where the biquads are followed
EchoEstimates == {0, 1}

\* lengths of the output blocks under Spec
MainOutLens == {2}

\* blocks the host delivers to the microphone callback under SpecOrder: the
\* callback enqueues 2, then 5
OrderMicBlocks == {<<1, 0, 3, 0, 7, 0>>}

\* blocks the host delivers to the reference callback under SpecOrder: the
\* callback enqueues 6, then 10
OrderCapBlocks == {<<5, 0, 7, 0, 13, 0>>}

(* ------------------------- f32 arithmetic ------------------------------ *)

\* An f32 is finite (an integer here), an infinity (v is its sign) or NaN.
\* Finite results are exact, but for a quotient, which is rounded towards 0.
Fin(n) == [k |-> "fin", v |-> n]
Inf(sgn) == [k |-> "inf", v |-> sgn]
NaN == [k |-> "nan", v |-> 0]

IsNaN(a) == a.k = "nan"

Abs(n) == IF n < 0 THEN -n ELSE n

Sign(n) == IF n > 0 THEN 1 ELSE IF n < 0 THEN -1 ELSE 0

\* integer quotient rounded towards 0 (d /= 0)
TruncDiv(n, d) == Sign(n) * Sign(d) * (Abs(n) \div Abs(d))

FNeg(a) == IF IsNaN(a) THEN NaN ELSE [a EXCEPT !.v = -a.v]

FAbs(a) == IF IsNaN(a) THEN NaN ELSE [a EXCEPT !.v = Abs(a.v)]

FAdd(a, b) ==
    IF IsNaN(a) \/ IsNaN(b) THEN NaN
    ELSE IF a.k = "inf" /\ b.k = "inf" THEN (IF a.v = b.v THEN a ELSE NaN)
    ELSE IF a.k = "inf" THEN a
    ELSE IF b.k = "inf" THEN b
    ELSE Fin(a.v + b.v)

FSub(a, b) == FAdd(a, FNeg(b))

FMul(a, b) ==
    IF IsNaN(a) \/ IsNaN(b) THEN NaN
    ELSE IF a.k = "inf" \/ b.k = "inf"
         THEN (IF a.v = 0 \/ b.v = 0 THEN NaN ELSE Inf(Sign(a.v) * Sign(b.v)))
    ELSE Fin(a.v * b.v)

FDiv(a, b) ==
    IF IsNaN(a) \/ IsNaN(b) THEN NaN
    ELSE IF a.k = "inf"
         THEN (IF b.k = "inf" THEN NaN
               ELSE Inf(a.v * (IF b.v < 0 THEN -1 ELSE 1)))
    ELSE IF b.k = "inf" THEN Fin(0)
    ELSE IF b.v = 0 THEN (IF a.v = 0 THEN NaN ELSE Inf(Sign(a.v)))
    ELSE Fin(TruncDiv(a.v, b.v))

\* a < b: false as soon as one side is NaN
FLt(a, b) ==
    IF IsNaN(a) \/ IsNaN(b) THEN FALSE
    ELSE IF a.k = "inf" THEN a.v < 0 /\ ~(b.k = "inf" /\ b.v < 0)
    ELSE IF b.k = "inf" THEN b.v > 0
    ELSE a.v < b.v

FGt(a, b) == FLt(b, a)

(* ----------------------- nlmf.rs: NLMF::adapt -------------------------- *)

\* pub const N_TAPS (1024 in nlmf.rs:8), scaled down
N_TAPS == 8

\* f32x8: chunks_exact(8)
Lanes == 8

\* elements that chunks_exact(8) of a zipped with chunks_exact(8) of b cover
ChunkedLen(a, b) == Lanes * Min(Len(a) \div Lanes, Len(b) \div Lanes)

RECURSIVE SumProducts(_, _, _)
SumProducts(a, b, n) ==
    IF n = 0 THEN Fin(0)
    ELSE FAdd(SumProducts(a, b, n - 1), FMul(a[n], b[n]))

\* chunks_exact(8) .. zip .. map(|(a, b)| a * b).sum::<f32x8>().sum()
Dot(a, b) == SumProducts(a, b, ChunkedLen(a, b))

\* let dw: f32 = nu * error * x, for every x of input
Dws(nu, error, input) ==
    [i \in 1..Len(input) |-> FMul(FMul(nu, error), input[i])]

\* the running maximum of (dw * error).abs() over the first n taps
RECURSIVE NoveltyUpTo(_, _, _)
NoveltyUpTo(dw, error, n) ==
    IF n = 0 THEN Fin(0)
    ELSE LET prev == NoveltyUpTo(dw, error, n - 1)
             nov == FAbs(FMul(dw[n], error))
         IN  IF FGt(nov, prev) THEN nov ELSE prev

\* a gate that also admits novelty = threshold (used to mutate Gate)
GateInclusive(novelty, novelty_threshold) == ~FLt(novelty_threshold, novelty)

\* a gate that admits every update (used to mutate Gate)
GateOpen(novelty, novelty_threshold) == TRUE

\* if novelty < novelty_threshold
Gate(novelty, novelty_threshold) == FLt(novelty, novelty_threshold)

\* let mut dws: [f32; N_TAPS] = [0.0; N_TAPS]; dws[i] = dw
DwsArray(dw) == [i \in 1..N_TAPS |-> IF i <= Len(dw) THEN dw[i] ELSE Fin(0)]

\* the first tap at which assert!(!(w.is_nan())) fails, 0 when none does
FirstNaN(w, dws) ==
    LET bad == {i \in 1..N_TAPS : IsNaN(FAdd(w[i], dws[i]))}
    IN  IF bad = {} THEN 0 ELSE CHOOSE i \in bad : \A j \in bad : i <= j

\* the weights after taps 1..upto went through *w = *w + dw
Updated(w, dws, upto) ==
    [i \in 1..N_TAPS |-> IF i <= upto THEN FAdd(w[i], dws[i]) ELSE w[i]]

\* adapt(&mut self, input, target, novelty_threshold): the call either
\* returns (output, novelty) or panics: at dws[i] when input is longer than
\* N_TAPS, or at the assertion after a weight has become NaN
Adapt(f, input, target, novelty_threshold) ==
    LET output == Dot(f.weights, input)
        error == FSub(target, output)
        input_dot == Dot(input, input)
        nu == FDiv(f.mu, FAdd(f.eps, input_dot))
        dw == Dws(nu, error, input)
        novelty == NoveltyUpTo(dw, error, Min(Len(input), N_TAPS))
        dws == DwsArray(dw)
        bad == FirstNaN(f.weights, dws)
    IN  IF Len(input) > N_TAPS
        THEN [status |-> "panicked", weights |-> f.weights,
              output |-> output, novelty |-> novelty, dws |-> dws]
        ELSE IF ~Gate(novelty, novelty_threshold)
        THEN [status |-> "returned", weights |-> f.weights,
              output |-> output, novelty |-> novelty, dws |-> dws]
        ELSE IF bad = 0
        THEN [status |-> "returned", weights |-> Updated(f.weights, dws, N_TAPS),
              output |-> output, novelty |-> novelty, dws |-> dws]
        ELSE [status |-> "panicked", weights |-> Updated(f.weights, dws, bad),
              output |-> output, novelty |-> novelty, dws |-> dws]

\* NLMF::new(_n, mu, eps, weights)
NewNLMF(mu, eps, weights) == [weights |-> weights, mu |-> mu, eps |-> eps]

\* [0.0; N_TAPS]
ZeroWeights == [i \in 1..N_TAPS |-> Fin(0)]

\* a window of N_TAPS samples, all 0.0 but one
Impulse(at, val) == [i \in 1..N_TAPS |-> IF i = at THEN val ELSE Fin(0)]

\* f32::MAX: above every finite value that occurs here
F32_MAX == Fin(1000000)

\* windows handed to adapt() under SpecAdapt
AdaptWindows ==
    { ZeroWeights, Impulse(1, Fin(1)), Impulse(N_TAPS, Fin(2)),
      [i \in 1..N_TAPS |-> IF i <= 2 THEN Fin(i) ELSE Fin(0)],
      Impulse(2, Inf(1)) }

\* targets (microphone samples) handed to adapt() under SpecAdapt
AdaptTargets == {Fin(0), Fin(1), Fin(-2), NaN, Inf(1)}

\* novelty thresholds under SpecAdapt; -1.0 and f32::MAX are the benchmark's
AdaptThresholds == {Fin(-1), Fin(0), Fin(6), F32_MAX, NaN}

\* thresholds of the second filter
OtherThresholds == {Fin(-1), F32_MAX}

\* weights and step size the filter is built with under SpecAdapt
AdaptWeights == {ZeroWeights, Impulse(1, Fin(1))}
AdaptMus == {Fin(12)}

\* the result of no call
NoResult ==
    [status |-> "none", weights |-> <<>>, output |-> Fin(0),
     novelty |-> Fin(0), dws |-> <<>>]

\* no call of adapt() is under way; `calls` were made
AdIdle(calls) ==
    [pc |-> "idle", calls |-> calls, input |-> <<>>, target |-> Fin(0),
     threshold |-> Fin(0), pre |-> <<>>, res |-> NoResult,
     other_threshold |-> Fin(0), other |-> NoResult]

\* a caller runs nlmf_filter.adapt(input, target, threshold); a second filter
\* in the same state is given the same window and target, another threshold
AdaptCall(inputs, targets, thresholds, others) ==
    /\ ad.pc = "idle"
    /\ ad.calls < MaxAdaptCalls
    /\ \E x \in inputs, t \in targets, thr \in thresholds, thr2 \in others :
        LET r == Adapt(nlmf_filter, x, t, thr)
            o == Adapt(nlmf_filter, x, t, thr2)
        IN  /\ nlmf_filter' = [nlmf_filter EXCEPT !.weights = r.weights]
            /\ ad' = [pc |-> r.status, calls |-> ad.calls + 1, input |-> x,
                      target |-> t, threshold |-> thr,
                      pre |-> nlmf_filter.weights, res |-> r,
                      other_threshold |-> thr2, other |-> o]
    /\ UNCHANGED <<setup, trace, biquadVars, delayVars, ringVars, mainVars, sigVars, dbgVars,
                   procVars, micCbVars, capCbVars, playCbVars>>

\* the caller has taken (output, novelty)
AdaptReturn ==
    /\ ad.pc = "returned"
    /\ ad' = AdIdle(ad.calls)
    /\ UNCHANGED <<setup, trace, biquadVars, nlmf_filter, delayVars, ringVars, mainVars, sigVars,
                   dbgVars, procVars, micCbVars, capCbVars, playCbVars>>

(* ------------------------ filter.rs: Filter ---------------------------- *)

\* compute_parameters(mode): (b0, b1, b2, a1, a2).  The coefficients are
\* integers here; the low-pass has b = (s, 2s, s), the high-pass
\* b = (s, -2s, s), and both share a1, a2.
LowPassParams == <<Fin(1), Fin(2), Fin(1), Fin(-1), Fin(1)>>
HighPassParams == <<Fin(1), Fin(-2), Fin(1), Fin(-1), Fin(1)>>

\* coefficients Filter::new is given under SpecBiquad
BiquadParams ==
    {LowPassParams, HighPassParams,
     <<Fin(2), Fin(0), Fin(-1), Fin(1), Fin(0)>>,
     <<Fin(1), Fin(1), Fin(1), Fin(0), Fin(-2)>>}

\* arguments of tick() under SpecBiquad
TickInputs == {Fin(-1), Fin(0), Fin(1), Fin(3), Inf(1), NaN}

\* Filter::new: the delay elements are 0.0
NewFilter(c) ==
    [x_last1 |-> Fin(0), x_last2 |-> Fin(0),
     y_last1 |-> Fin(0), y_last2 |-> Fin(0),
     b0 |-> c[1], b1 |-> c[2], b2 |-> c[3], a1 |-> c[4], a2 |-> c[5]]

\* the five coefficients of a filter
Coefficients(f) == <<f.b0, f.b1, f.b2, f.a1, f.a2>>

\* the four delay elements of a filter
History(f) == <<f.x_last1, f.x_last2, f.y_last1, f.y_last2>>

\* let y = b0 * x + b1 * x_last1 + b2 * x_last2 - a1 * y_last1 - a2 * y_last2
TickOutput(f, x) ==
    FSub(FSub(FAdd(FAdd(FMul(f.b0, x), FMul(f.b1, f.x_last1)),
                   FMul(f.b2, f.x_last2)),
              FMul(f.a1, f.y_last1)),
         FMul(f.a2, f.y_last2))

\* a tick() that stores x before it shifts the delay elements (used to
\* mutate Tick)
TickStoreFirst(f, x) ==
    LET y == TickOutput(f, x) IN
    [y |-> y,
     filter |-> [f EXCEPT !.x_last1 = x, !.y_last1 = y,
                          !.x_last2 = x, !.y_last2 = y]]

\* a tick() that feeds the result back into b0 (used to mutate Tick)
TickRetuning(f, x) ==
    LET y == TickOutput(f, x) IN
    [y |-> y,
     filter |-> [f EXCEPT !.x_last2 = f.x_last1, !.y_last2 = f.y_last1,
                          !.x_last1 = x, !.y_last1 = y, !.b0 = y]]

\* Filter::tick: the result and the filter afterwards
Tick(f, x) ==
    LET y == TickOutput(f, x) IN
    [y |-> y,
     filter |-> [f EXCEPT !.x_last2 = f.x_last1, !.y_last2 = f.y_last1,
                          !.x_last1 = x, !.y_last1 = y]]

\* no call of tick() was made on a filter built with the coefficients c
TickIdle(c) == [n |-> 0, x |-> Fin(0), y |-> Fin(0), pre |-> NewFilter(c), made |-> c]

\* the biquads as AECFiltering::new builds them (processing.rs:187-188)
InitBiquadIdle ==
    /\ lowpass_filter = NewFilter(LowPassParams)
    /\ highpass_fiter = NewFilter(HighPassParams)
    /\ tk = TickIdle(LowPassParams)

\* a call of lowpass_filter.tick(x)
BiquadTick(inputs) ==
    /\ tk.n < MaxTicks
    /\ \E x \in inputs :
        LET r == Tick(lowpass_filter, x) IN
        /\ lowpass_filter' = r.filter
        /\ tk' = [tk EXCEPT !.n = @ + 1, !.x = x, !.y = r.y, !.pre = lowpass_filter]
    /\ UNCHANGED <<setup, trace, dspVars, highpass_fiter, ringVars, mainVars, sigVars,
                   dbgVars, procVars, micCbVars, capCbVars, playCbVars>>

(* ------------------ the caller: start_thread and kill ------------------ *)

\* main.rs:279,299  filter_processing.debug_channel = Some(plot_send) / None
SetDebug ==
    /\ main_pc = "idle"
    /\ \E on \in BOOLEAN :
        /\ on /= debug_channel
        /\ debug_channel' = on
        /\ plot_rx_alive' = on
    /\ UNCHANGED <<setup, trace, biquadVars, dspVars, ringVars, mainVars, sigVars, procVars,
                   micCbVars, capCbVars, playCbVars>>

\* the telemetry receiver goes out of scope
DropPlotReceiver ==
    /\ plot_rx_alive
    /\ plot_rx_alive' = FALSE
    /\ UNCHANGED <<setup, trace, biquadVars, dspVars, ringVars, mainVars, sigVars, debug_channel, procVars,
                   micCbVars, capCbVars, playCbVars>>

\* a start_thread that hands the thread an engine with the delay line
\* primed anew and the biquads rebuilt (used to mutate StartThreadSpawn)
StartThreadSpawnFresh ==
    /\ main_pc = "idle"
    /\ gen < MaxStarts
    /\ sig_pending' = 0
    /\ sender_alive' = TRUE
    /\ published' = 0
    /\ gen' = gen + 1
    /\ proc_pc' = "publish"
    /\ token' = FALSE
    /\ main_pc' = "spin"
    /\ lowpass_filter' = NewFilter(Coefficients(lowpass_filter))
    /\ highpass_fiter' = NewFilter(Coefficients(highpass_fiter))
    /\ UNCHANGED <<setup, trace, tk, dspVars, ringVars, ret_handle, shared_slot, mutex, dbgVars,
                   procLocals, micCbVars, capCbVars, playCbVars>>

\* start_thread, up to std::thread::spawn
StartThreadSpawn ==
    /\ main_pc = "idle"
    /\ gen < MaxStarts
    /\ sig_pending' = 0
    /\ sender_alive' = TRUE
    /\ published' = 0
    /\ gen' = gen + 1
    /\ proc_pc' = "publish"
    /\ token' = FALSE
    /\ main_pc' = "spin"
    /\ UNCHANGED <<setup, trace, biquadVars, dspVars, ringVars, ret_handle, shared_slot, mutex, dbgVars,
                   procLocals, micCbVars, capCbVars, playCbVars>>

\* the spawned closure: *shared_thread_handle_ref = Some(current())
ProcPublish ==
    /\ proc_pc = "publish"
    /\ published' = gen
    /\ proc_pc' = "check"
    /\ UNCHANGED <<setup, trace, biquadVars, dspVars, ringVars, mainVars, sigVars, dbgVars, gen, token,
                   procLocals, micCbVars, capCbVars, playCbVars>>

\* a start_thread that returns a handle without waiting for the slot
\* (used to mutate StartThreadReturn)
StartThreadReturnEarly ==
    /\ main_pc = "spin"
    /\ ret_handle' = gen
    /\ published' = 0
    /\ main_pc' = "running"
    /\ UNCHANGED <<setup, trace, biquadVars, dspVars, ringVars, shared_slot, mutex, sigVars, dbgVars, gen,
                   proc_pc, token, procLocals,
                   micCbVars, capCbVars, playCbVars>>

\* start_thread: the spin loop ends once the slot is Some; take() and return
StartThreadReturn ==
    /\ main_pc = "spin"
    /\ published /= 0
    /\ ret_handle' = published
    /\ published' = 0
    /\ main_pc' = "running"
    /\ UNCHANGED <<setup, trace, biquadVars, dspVars, ringVars, shared_slot, mutex, sigVars, dbgVars, gen,
                   proc_pc, token, procLocals,
                   micCbVars, capCbVars, playCbVars>>

\* main.rs:285  shared_parking_thread_handle.lock()
StoreHandleLock ==
    /\ main_pc = "running"
    /\ ret_handle /= 0
    /\ mutex = "free"
    /\ mutex' = "main"
    /\ main_pc' = "storing"
    /\ UNCHANGED <<setup, trace, biquadVars, dspVars, ringVars, ret_handle, shared_slot, sigVars, dbgVars,
                   procVars, micCbVars, capCbVars, playCbVars>>

\* main.rs:285  *guard = Some(parking_thread_handle); the guard is dropped
StoreHandleWrite ==
    /\ main_pc = "storing"
    /\ shared_slot' = ret_handle
    /\ ret_handle' = 0
    /\ mutex' = "free"
    /\ main_pc' = "running"
    /\ UNCHANGED <<setup, trace, biquadVars, dspVars, ringVars, sigVars, dbgVars, procVars,
                   micCbVars, capCbVars, playCbVars>>

\* the receiver lives in the engine, which a panicking thread drops
ReceiverAlive == proc_pc /= "panicked"

\* kill: self.kill_signal_sender.send(()).unwrap()
KillSend ==
    /\ main_pc = "running"
    /\ IF ReceiverAlive
       THEN /\ sig_pending' = sig_pending + 1
            /\ main_pc' = "join"
       ELSE /\ sig_pending' = sig_pending
            /\ main_pc' = "panicked"
    /\ UNCHANGED <<setup, trace, biquadVars, dspVars, ringVars, ret_handle, shared_slot, mutex, sender_alive,
                   dbgVars, procVars, micCbVars, capCbVars, playCbVars>>

\* join that hands the engine back although the thread panicked
\* (used to mutate KillJoin)
KillJoinIgnoringPanic ==
    /\ main_pc = "join"
    /\ proc_pc \in {"done", "panicked"}
    /\ main_pc' = "idle"
    /\ proc_pc' = "none"
    /\ sender_alive' = FALSE
    /\ ret_handle' = 0
    /\ UNCHANGED <<setup, trace, biquadVars, dspVars, ringVars, shared_slot, mutex, sig_pending, dbgVars,
                   gen, published, token, procLocals,
                   micCbVars, capCbVars, playCbVars>>

\* a kill that hands the engine back without waiting for the thread to end
\* (used to mutate KillJoin)
KillJoinNoWait ==
    /\ main_pc = "join"
    /\ main_pc' = "idle"
    /\ sender_alive' = FALSE
    /\ ret_handle' = 0
    /\ UNCHANGED <<setup, trace, biquadVars, dspVars, ringVars, shared_slot, mutex, sig_pending, dbgVars,
                   procVars, micCbVars, capCbVars, playCbVars>>

\* kill: self.thread_join_handle.join().unwrap(), then self is dropped
KillJoin ==
    /\ main_pc = "join"
    /\ proc_pc \in {"done", "panicked"}
    /\ IF proc_pc = "done"
       THEN /\ main_pc' = "idle"
            /\ proc_pc' = "none"
       ELSE /\ main_pc' = "panicked"
            /\ proc_pc' = proc_pc
    /\ sender_alive' = FALSE
    /\ ret_handle' = 0
    /\ UNCHANGED <<setup, trace, biquadVars, dspVars, ringVars, shared_slot, mutex, sig_pending, dbgVars,
                   gen, published, token, procLocals,
                   micCbVars, capCbVars, playCbVars>>

\* the RunningAECFiltering is dropped without kill (end of main)
DropRunning ==
    /\ main_pc = "running"
    /\ sender_alive' = FALSE
    /\ ret_handle' = 0
    /\ main_pc' = "dropped"
    /\ UNCHANGED <<setup, trace, biquadVars, dspVars, ringVars, shared_slot, mutex, sig_pending, dbgVars,
                   procVars, micCbVars, capCbVars, playCbVars>>

(* ------------------ the processing thread: process() ------------------- *)

\* counter % 1_000
TelemetryStride == 1000

\* the thread is between spawn and return
ProcAlive == proc_pc \notin {"none", "done", "panicked"}

\* an unpark that only wakes a thread already parked, and is lost on a thread
\* that is running (used to mutate TokenAfterUnpark)
TokenIfParked(h) == IF h = gen /\ proc_pc = "park" THEN TRUE ELSE token

\* Thread::unpark on handle h: sets the token of that thread
TokenAfterUnpark(h) == IF h = gen /\ ProcAlive THEN TRUE ELSE token

\* a try_recv() whose Err(Disconnected) is taken like Err(Empty) (used to
\* mutate StopRequested)
StopOnSignalOnly == sig_pending > 0

\* try_recv() is Ok(()) or Err(Disconnected)
StopRequested == sig_pending > 0 \/ ~sender_alive

\* top of the outer loop: the signal is examined, then counter = 0
ProcCheck ==
    /\ proc_pc = "check"
    /\ IF StopRequested
       THEN /\ sig_pending' = IF sig_pending > 0 THEN sig_pending - 1 ELSE 0
            /\ proc_pc' = "done"
            /\ counter' = counter
       ELSE /\ sig_pending' = sig_pending
            /\ proc_pc' = "guard"
            /\ counter' = 0
    /\ UNCHANGED <<setup, trace, biquadVars, dspVars, ringVars, mainVars, sender_alive, dbgVars, gen, published,
                   token, fill_left, mic_sample, capture_sample, filtered,
                   micCbVars, capCbVars, playCbVars>>

\* a guard that does not look at the output ring (used to mutate DrainGuard)
DrainGuardInputsOnly ==
    /\ ~RingIsEmpty(mic_buffer)
    /\ ~RingIsEmpty(capture_buffer)

\* a guard that does not look at the reference ring (used to mutate
\* DrainGuard)
DrainGuardMicOnly ==
    /\ ~RingIsEmpty(mic_buffer)
    /\ ~RingIsFull(output_buffer)

\* the guard of the drain loop
DrainGuard ==
    /\ ~RingIsEmpty(mic_buffer)
    /\ ~RingIsEmpty(capture_buffer)
    /\ ~RingIsFull(output_buffer)

\* a drain loop that also stops on a pending signal (used to mutate
\* ProcGuard)
ProcGuardPreempted ==
    /\ proc_pc = "guard"
    /\ proc_pc' = IF StopRequested THEN "done"
                  ELSE IF DrainGuard THEN "pop_mic" ELSE "fillcheck"
    /\ UNCHANGED <<setup, trace, biquadVars, dspVars, ringVars, mainVars, sigVars, dbgVars, gen, published,
                   token, procLocals, micCbVars, capCbVars, playCbVars>>

\* while !mic.is_empty() && !capture.is_empty() && !output.is_full()
ProcGuard ==
    /\ proc_pc = "guard"
    /\ proc_pc' = IF DrainGuard THEN "pop_mic" ELSE "fillcheck"
    /\ UNCHANGED <<setup, trace, biquadVars, dspVars, ringVars, mainVars, sigVars, dbgVars, gen, published,
                   token, procLocals, micCbVars, capCbVars, playCbVars>>

\* the delay line is followed (it is never empty once primed)
DelayFollowed == filter_buffer /= <<>>

\* let mic_sample = self.mic_buffer.pop().unwrap()
ProcPopMic ==
    /\ proc_pc = "pop_mic"
    /\ LET r == RingPop(mic_buffer) IN
        /\ mic_buffer' = r.ring
        /\ mic_sample' = r.val
        /\ proc_pc' = IF r.ok THEN "pop_capture" ELSE "panicked"
        /\ io' = IF DelayFollowed /\ r.ok THEN [io EXCEPT !.mic = @ + 1] ELSE io
        /\ trace' = IF trace.on /\ r.ok
                     THEN [trace EXCEPT !.pmic = Append(@, r.val)]
                     ELSE trace
    /\ UNCHANGED <<setup, biquadVars, nlmfVars, filter_buffer, filter_input, ref_hist, tel,
                   capture_buffer, output_buffer, mainVars, sigVars, dbgVars,
                   gen, published, token, counter, fill_left, capture_sample,
                   filtered, micCbVars, capCbVars, playCbVars>>

\* a step that reads the front reference sample and leaves it in the ring
\* (used to mutate ProcPopCapture)
ProcPeekCapture ==
    /\ proc_pc = "pop_capture"
    /\ capture_sample' = RingPop(capture_buffer).val
    /\ proc_pc' = IF RingPop(capture_buffer).ok THEN "compute" ELSE "panicked"
    /\ UNCHANGED <<setup, trace, biquadVars, dspVars, ringVars, mainVars, sigVars, dbgVars,
                   gen, published, token, counter, fill_left, mic_sample,
                   filtered, micCbVars, capCbVars, playCbVars>>

\* let capture_sample = self.capture_buffer.pop().unwrap()
ProcPopCapture ==
    /\ proc_pc = "pop_capture"
    /\ LET r == RingPop(capture_buffer) IN
        /\ capture_buffer' = r.ring
        /\ capture_sample' = r.val
        /\ proc_pc' = IF r.ok THEN "compute" ELSE "panicked"
        /\ io' = IF DelayFollowed /\ r.ok THEN [io EXCEPT !.ref = @ + 1] ELSE io
        /\ trace' = IF trace.on /\ r.ok
                     THEN [trace EXCEPT !.pref = Append(@, r.val)]
                     ELSE trace
    /\ UNCHANGED <<setup, biquadVars, nlmfVars, filter_buffer, filter_input, ref_hist, tel,
                   mic_buffer, output_buffer, mainVars, sigVars, dbgVars,
                   gen, published, token, counter, fill_left, mic_sample,
                   filtered, micCbVars, capCbVars, playCbVars>>

\* CircularQueue::with_capacity(2048) next to NLMF::new(2048, ..): twice
\* nlmf.rs's N_TAPS
FilterBufferLen == 2 * N_TAPS

\* for _ in 0..2048 { filter_buffer.push(0.0) }
PrimedQueue == [i \in 1..FilterBufferLen |-> 0]

\* a push that, on a full queue, replaces the newest element (used to mutate
\* QueuePush)
QueuePushOverNewest(q, v) ==
    IF Len(q) < FilterBufferLen THEN Append(q, v)
    ELSE Append(SubSeq(q, 1, Len(q) - 1), v)

\* CircularQueue::push: on a full queue the oldest element is overwritten
QueuePush(q, v) ==
    IF Len(q) < FilterBufferLen THEN Append(q, v) ELSE Append(Tail(q), v)

\* an iteration from the oldest element to the newest, as asc_iter() gives
\* (used to mutate QueueIter)
QueueAscIter(q) == q

\* CircularQueue::iter(): from the most recently pushed element to the oldest
\* (plot.rs reads iter().next() as the latest point)
QueueIter(q) == [i \in 1..Len(q) |-> q[Len(q) + 1 - i]]

\* buffer.len() as f32 / buffer.capacity() as f32, kept as the two integers
FillRatio(r) == [num |-> RingLen(r), den |-> r.capacity]

\* the tuples counted, where the delay line is followed
Counted(emit) ==
    IF ~DelayFollowed THEN tel
    ELSE IF emit
         THEN [tel EXCEPT !.sent = @ + 1, !.since = 1, !.gap = tel.since]
         ELSE [tel EXCEPT !.since = @ + 1]

\* the telemetry history after an iteration whose debug_channel is Some
Told(emit) ==
    IF setup.telemetry /\ emit
    THEN [Counted(emit) EXCEPT !.last = <<FillRatio(mic_buffer),
                                          FillRatio(capture_buffer),
                                          FillRatio(output_buffer)>>]
    ELSE Counted(emit)

\* delay line, adapt, the two biquads, then the telemetry block and counter += 1.
\* a send whose result is dropped instead of unwrapped (used to mutate
\* SendFails)
SendIgnored(emit) == FALSE

\* Some(ch) => ch.send(..).unwrap(): Err when the receiver is gone
SendFails(emit) == emit /\ debug_channel /\ ~plot_rx_alive

\* a finite f32 as a sample of the rings
SampleOf(a) == IF a.k = "fin" THEN a.v ELSE a

\* The value of `filtered` is any sample unless the biquads are followed, and
\* then highpass_fiter.tick(lowpass_filter.tick(mic_sample - aec_output)) with
\* any of EchoEstimates as aec_output; a thread that panics takes the engine
\* with it, so what it had written by then is not kept.
\* ch.send(..).unwrap() panics
\* when the receiver is gone.  adapt() as nlmf.rs has it panics at dws[i] on
\* a window longer than N_TAPS, while processing.rs is written for a filter
\* sized by the first argument of NLMF::new: both outcomes are kept.
ProcCompute ==
    /\ proc_pc = "compute"
    /\ LET emit == counter % TelemetryStride = 0
           pushed == QueuePush(filter_buffer, capture_sample)
           window == QueueIter(pushed)
       IN
        /\ IF DelayFollowed
           THEN /\ filter_buffer' = pushed
                /\ filter_input' = window
                /\ ref_hist' = Append(ref_hist, capture_sample)
           ELSE UNCHANGED <<filter_buffer, filter_input, ref_hist>>
        /\ \/ /\ DelayFollowed
              /\ Len(window) > Len(nlmf_filter.weights)
              /\ proc_pc' = "panicked"
              /\ UNCHANGED <<counter, filtered, tel, lowpass_filter, highpass_fiter>>
           \/ IF SendFails(emit)
              THEN /\ proc_pc' = "panicked"
                   /\ UNCHANGED <<counter, filtered, tel, lowpass_filter, highpass_fiter>>
              ELSE /\ IF setup.biquads
                      THEN \E e \in EchoEstimates :
                            LET low == Tick(lowpass_filter, Fin(mic_sample - e))
                                high == Tick(highpass_fiter, low.y)
                            IN  /\ lowpass_filter' = low.filter
                                /\ highpass_fiter' = high.filter
                                /\ filtered' = SampleOf(high.y)
                      ELSE /\ \E f \in FilteredVals : filtered' = f
                           /\ UNCHANGED <<lowpass_filter, highpass_fiter>>
                   /\ counter' = (IF emit THEN 0 ELSE counter) + 1
                   /\ tel' = IF debug_channel THEN Told(emit) ELSE tel
                   /\ proc_pc' = "push"
    /\ UNCHANGED <<setup, trace, tk, nlmfVars, io, ringVars, mainVars, sigVars, dbgVars, gen,
                   published, token, fill_left, mic_sample, capture_sample,
                   micCbVars, capCbVars, playCbVars>>

\* if self.output_buffer.push(filtered).is_err() { break; }
ProcPush ==
    /\ proc_pc = "push"
    /\ LET r == RingPush(output_buffer, filtered) IN
        /\ output_buffer' = r.ring
        /\ proc_pc' = IF r.ok THEN "guard" ELSE "fillcheck"
        /\ io' = IF DelayFollowed /\ r.ok THEN [io EXCEPT !.out = @ + 1] ELSE io
        /\ trace' = IF trace.on /\ r.ok
                     THEN [trace EXCEPT !.out = Append(@, <<mic_sample, capture_sample>>)]
                     ELSE trace
    /\ mic_sample' = 0
    /\ capture_sample' = 0
    /\ filtered' = 0
    /\ tel' = [tel EXCEPT !.last = <<>>]
    /\ UNCHANGED <<setup, biquadVars, nlmfVars, filter_buffer, filter_input, ref_hist,
                   mic_buffer, capture_buffer, mainVars, sigVars, dbgVars,
                   gen, published, token, counter, fill_left,
                   micCbVars, capCbVars, playCbVars>>

\* (len as f32 / capacity as f32) < 0.2
OutputLow(r) == 5 * RingLen(r) < r.capacity

\* the test before the silence loop: for _ in 0..capacity / 2
ProcFillCheck ==
    /\ proc_pc = "fillcheck"
    /\ IF OutputLow(output_buffer)
       THEN /\ fill_left' = output_buffer.capacity \div 2
            /\ proc_pc' = "fill"
       ELSE /\ fill_left' = 0
            /\ proc_pc' = "park"
    /\ UNCHANGED <<setup, trace, biquadVars, dspVars, ringVars, mainVars, sigVars, dbgVars, gen, published,
                   token, counter, mic_sample, capture_sample, filtered,
                   micCbVars, capCbVars, playCbVars>>

\* self.output_buffer.push(0.0), result ignored; after the loop, park
ProcFill ==
    /\ proc_pc = "fill"
    /\ IF fill_left > 0
       THEN /\ output_buffer' = RingPush(output_buffer, 0).ring
            /\ fill_left' = fill_left - 1
            /\ proc_pc' = proc_pc
       ELSE /\ output_buffer' = output_buffer
            /\ fill_left' = 0
            /\ proc_pc' = "park"
    /\ UNCHANGED <<setup, trace, biquadVars, dspVars, mic_buffer, capture_buffer, mainVars, sigVars, dbgVars,
                   gen, published, token, counter, mic_sample, capture_sample,
                   filtered, micCbVars, capCbVars, playCbVars>>

\* a park() that returns into the drain loop, past the shutdown check (used
\* to mutate ProcPark)
ProcParkToGuard ==
    /\ proc_pc = "park"
    /\ token
    /\ token' = FALSE
    /\ proc_pc' = "guard"
    /\ UNCHANGED <<setup, trace, biquadVars, dspVars, ringVars, mainVars, sigVars, dbgVars, gen, published,
                   procLocals, micCbVars, capCbVars, playCbVars>>

\* std::thread::park() returns: the token is there and is consumed
ProcPark ==
    /\ proc_pc = "park"
    /\ token
    /\ token' = FALSE
    /\ proc_pc' = "check"
    /\ UNCHANGED <<setup, trace, biquadVars, dspVars, ringVars, mainVars, sigVars, dbgVars, gen, published,
                   procLocals, micCbVars, capCbVars, playCbVars>>

\* std::thread::park() may also return with no unpark (a spurious wake-up);
\* nothing obliges it to
SpuriousWake ==
    /\ proc_pc = "park"
    /\ ~token
    /\ proc_pc' = "check"
    /\ UNCHANGED <<setup, trace, biquadVars, dspVars, ringVars, mainVars, sigVars, dbgVars, gen, published,
                   token, procLocals, micCbVars, capCbVars, playCbVars>>

\* the steps the thread takes on its own, whatever the other threads do
ProcStep ==
    \/ ProcPublish \/ ProcCheck \/ ProcGuard \/ ProcPopMic \/ ProcPopCapture
    \/ ProcCompute \/ ProcPush \/ ProcFillCheck \/ ProcFill \/ ProcPark

(* ------------- input_processing: callback_and_unpark ------------------- *)

\* the host calls callback_and_unpark(data)
MicCbStart(blocks) ==
    /\ mc_pc = "idle"
    /\ mc_calls < MaxMicBlocks
    /\ \E d \in blocks : mc_data' = d
    /\ mc_k' = 1
    /\ mc_fell' = FALSE
    /\ mc_calls' = mc_calls + 1
    /\ mc_pc' = "loop"
    /\ UNCHANGED <<setup, trace, biquadVars, dspVars, ringVars, mainVars, sigVars, dbgVars, procVars,
                   capCbVars, playCbVars>>

\* one iteration of the for loop: push(merged_sample), overrun noted
MicCbPush ==
    /\ mc_pc = "loop"
    /\ mc_k <= Len(Pairs(mc_data))
    /\ LET r == RingPush(mic_buffer, Merged(Pairs(mc_data)[mc_k])) IN
        /\ mic_buffer' = r.ring
        /\ mc_fell' = (mc_fell \/ ~r.ok)
        /\ trace' = IF trace.on /\ r.ok
                     THEN [trace EXCEPT !.mic = Append(@, Merged(Pairs(mc_data)[mc_k]))]
                     ELSE trace
    /\ mc_k' = mc_k + 1
    /\ UNCHANGED <<setup, biquadVars, dspVars, capture_buffer, output_buffer, mainVars, sigVars, dbgVars,
                   procVars, mc_pc, mc_data, mc_calls, capCbVars, playCbVars>>

\* try_lock() is Ok and the slot holds Some(handle)
UnparkIssued == mutex = "free" /\ shared_slot /= 0

\* an ending taken as soon as the call is under way, the pairs not yet pushed
\* being dropped (used to mutate MicCbUnpark)
MicCbUnparkEarly ==
    /\ mc_pc = "loop"
    /\ token' = IF UnparkIssued THEN TokenAfterUnpark(shared_slot) ELSE token
    /\ mc_pc' = "idle"
    /\ mc_data' = <<>>
    /\ mc_k' = 0
    /\ mc_fell' = FALSE
    /\ UNCHANGED <<setup, trace, biquadVars, dspVars, ringVars, mainVars, sigVars, dbgVars, gen, published,
                   proc_pc, procLocals, mc_calls, capCbVars, playCbVars>>

\* an ending that waits for the mutex, as lock() would (used to mutate
\* MicCbUnpark)
MicCbUnparkBlocking ==
    /\ mc_pc = "loop"
    /\ mc_k > Len(Pairs(mc_data))
    /\ mutex = "free"
    /\ token' = IF shared_slot /= 0 THEN TokenAfterUnpark(shared_slot) ELSE token
    /\ mc_pc' = "idle"
    /\ mc_data' = <<>>
    /\ mc_k' = 0
    /\ mc_fell' = FALSE
    /\ UNCHANGED <<setup, trace, biquadVars, dspVars, ringVars, mainVars, sigVars, dbgVars, gen, published,
                   proc_pc, procLocals, mc_calls, capCbVars, playCbVars>>

\* after the loop: try_lock, unpark if Some, return
MicCbUnpark ==
    /\ mc_pc = "loop"
    /\ mc_k > Len(Pairs(mc_data))
    /\ token' = IF UnparkIssued THEN TokenAfterUnpark(shared_slot) ELSE token
    /\ mc_pc' = "idle"
    /\ mc_data' = <<>>
    /\ mc_k' = 0
    /\ mc_fell' = FALSE
    /\ UNCHANGED <<setup, trace, biquadVars, dspVars, ringVars, mainVars, sigVars, dbgVars, gen, published,
                   proc_pc, procLocals, mc_calls, capCbVars, playCbVars>>

(* ----------------- capture_processing: callback ------------------------ *)

\* the host (or the benchmark) calls callback(data)
CapCbStart(blocks) ==
    /\ cc_pc = "idle"
    /\ trace.on => Len(trace.ref) < MaxTraced
    /\ \E d \in blocks : cc_data' = d
    /\ cc_k' = 1
    /\ cc_fell' = FALSE
    /\ cc_log' = <<>>
    /\ cc_ring0' = IF setup.record THEN capture_buffer.items ELSE <<>>
    /\ bench_popped' = <<>>
    /\ cc_pc' = "loop"
    /\ UNCHANGED <<setup, trace, biquadVars, dspVars, ringVars, mainVars, sigVars, dbgVars, procVars,
                   micCbVars, playCbVars>>

\* an iteration that keeps a sample it could not push and tries it again
\* (used to mutate CapCbPush)
CapCbPushRetry ==
    /\ cc_pc = "loop"
    /\ cc_k <= Len(Pairs(cc_data))
    /\ LET v == Merged(Pairs(cc_data)[cc_k])
           r == RingPush(capture_buffer, v) IN
        /\ capture_buffer' = r.ring
        /\ cc_fell' = (cc_fell \/ ~r.ok)
        /\ cc_log' = IF setup.record THEN Append(cc_log, <<v, r.ok>>) ELSE cc_log
        /\ cc_k' = IF r.ok THEN cc_k + 1 ELSE cc_k
    /\ UNCHANGED <<setup, trace, biquadVars, dspVars, mic_buffer, output_buffer, mainVars, sigVars, dbgVars,
                   procVars, micCbVars, cc_pc, cc_data, cc_ring0,
                   bench_popped, playCbVars>>

\* one iteration of the for loop: push(merged_sample), overrun noted
CapCbPush ==
    /\ cc_pc = "loop"
    /\ cc_k <= Len(Pairs(cc_data))
    /\ LET v == Merged(Pairs(cc_data)[cc_k])
           r == RingPush(capture_buffer, v) IN
        /\ capture_buffer' = r.ring
        /\ cc_fell' = (cc_fell \/ ~r.ok)
        /\ cc_log' = IF setup.record THEN Append(cc_log, <<v, r.ok>>) ELSE cc_log
        /\ trace' = IF trace.on /\ r.ok
                     THEN [trace EXCEPT !.ref = Append(@, v)]
                     ELSE trace
    /\ cc_k' = cc_k + 1
    /\ UNCHANGED <<setup, biquadVars, dspVars, mic_buffer, output_buffer, mainVars, sigVars, dbgVars,
                   procVars, micCbVars, cc_pc, cc_data, cc_ring0,
                   bench_popped, playCbVars>>

\* the loop is over: the overrun is reported and the callback returns
CapCbEnd ==
    /\ cc_pc = "loop"
    /\ cc_k > Len(Pairs(cc_data))
    /\ cc_pc' = "idle"
    /\ cc_data' = <<>>
    /\ cc_k' = 0
    /\ cc_log' = <<>>
    /\ cc_ring0' = <<>>
    /\ bench_popped' = <<>>
    /\ cc_fell' = FALSE
    /\ UNCHANGED <<setup, trace, biquadVars, dspVars, ringVars, mainVars, sigVars, dbgVars, procVars,
                   micCbVars, playCbVars>>

\* my_benchmark.rs:21,24  input_ring_consumer.pop()
RigPop ==
    /\ ~RingIsEmpty(capture_buffer)
    /\ LET r == RingPop(capture_buffer) IN
        /\ capture_buffer' = r.ring
        /\ bench_popped' = IF setup.record /\ cc_pc = "loop"
                           THEN Append(bench_popped, r.val) ELSE bench_popped
    /\ UNCHANGED <<setup, trace, biquadVars, dspVars, mic_buffer, output_buffer, mainVars, sigVars, dbgVars,
                   procVars, micCbVars, cc_pc, cc_data, cc_k, cc_fell,
                   cc_log, cc_ring0, playCbVars>>

(* ------------------ output_processing: callback ------------------------ *)

\* the host (or the benchmark) calls callback(data) with a block to fill
PlayCbStart(lens) ==
    /\ pc_pc = "idle"
    /\ \E n \in lens : pc_data' = [i \in 1..n |-> Junk]
    /\ pc_i' = 1
    /\ pc_flag' = FALSE
    /\ pc_last' = 0
    /\ pc_fell' = FALSE
    /\ pc_log' = <<>>
    /\ pc_ring0' = IF setup.record THEN output_buffer.items ELSE <<>>
    /\ pc_pc' = "loop"
    /\ UNCHANGED <<setup, trace, biquadVars, dspVars, ringVars, mainVars, sigVars, dbgVars, procVars,
                   micCbVars, capCbVars>>

\* an iteration that pops for every slot, never repeating the last sample
\* (used to mutate PlayCbSlot)
PlayCbSlotNoRepeat ==
    /\ pc_pc = "loop"
    /\ pc_i <= Len(pc_data)
    /\ LET r == RingPop(output_buffer) IN
        /\ output_buffer' = r.ring
        /\ pc_flag' = FALSE
        /\ pc_last' = IF r.ok THEN r.val ELSE pc_last
        /\ pc_fell' = (pc_fell \/ ~r.ok)
        /\ pc_data' = [pc_data EXCEPT ![pc_i] = IF r.ok THEN r.val ELSE 0]
        /\ pc_log' = IF setup.record THEN Append(pc_log, <<r.val, r.ok>>)
                      ELSE pc_log
    /\ pc_i' = pc_i + 1
    /\ UNCHANGED <<setup, trace, biquadVars, dspVars, mic_buffer, capture_buffer, mainVars, sigVars, dbgVars,
                   procVars, micCbVars, capCbVars, pc_pc, pc_ring0>>

\* one iteration of `for sample in data`
PlayCbSlot ==
    /\ pc_pc = "loop"
    /\ pc_i <= Len(pc_data)
    /\ IF ~pc_flag
       THEN LET r == RingPop(output_buffer) IN
            /\ output_buffer' = r.ring
            /\ pc_flag' = TRUE
            /\ pc_last' = IF r.ok THEN r.val ELSE pc_last
            /\ pc_fell' = (pc_fell \/ ~r.ok)
            /\ pc_data' = [pc_data EXCEPT ![pc_i] = IF r.ok THEN r.val ELSE 0]
            /\ pc_log' = IF setup.record THEN Append(pc_log, <<r.val, r.ok>>)
                          ELSE pc_log
       ELSE /\ output_buffer' = output_buffer
            /\ pc_flag' = FALSE
            /\ pc_last' = pc_last
            /\ pc_fell' = pc_fell
            /\ pc_data' = [pc_data EXCEPT ![pc_i] = pc_last]
            /\ pc_log' = pc_log
    /\ pc_i' = pc_i + 1
    /\ UNCHANGED <<setup, trace, biquadVars, dspVars, mic_buffer, capture_buffer, mainVars, sigVars, dbgVars,
                   procVars, micCbVars, capCbVars, pc_pc, pc_ring0>>

\* the block is full: the underrun is reported and the callback returns
PlayCbEnd ==
    /\ pc_pc = "loop"
    /\ pc_i > Len(pc_data)
    /\ pc_pc' = "idle"
    /\ pc_data' = <<>>
    /\ pc_i' = 0
    /\ pc_flag' = FALSE
    /\ pc_last' = 0
    /\ pc_log' = <<>>
    /\ pc_ring0' = <<>>
    /\ pc_fell' = FALSE
    /\ UNCHANGED <<setup, trace, biquadVars, dspVars, ringVars, mainVars, sigVars, dbgVars, procVars,
                   micCbVars, capCbVars>>

\* my_benchmark.rs:28,31  output_ring_producer.push(..)
RigPush(vals) ==
    /\ ~RingIsFull(output_buffer)
    /\ \E v \in vals : output_buffer' = RingPush(output_buffer, v).ring
    /\ UNCHANGED <<setup, trace, biquadVars, dspVars, mic_buffer, capture_buffer, mainVars, sigVars, dbgVars,
                   procVars, micCbVars, capCbVars, playCbVars>>

(* --------------------------- specifications --------------------------- *)

\* caller, thread and callbacks before anything has run, with telemetry
\* switched on or not
InitControlWith(dbg) ==
    /\ main_pc = "idle"
    /\ ret_handle = 0
    /\ shared_slot = 0
    /\ mutex = "free"
    /\ gen = 0
    /\ published = 0
    /\ proc_pc = "none"
    /\ token = FALSE
    /\ counter = 0
    /\ fill_left = 0
    /\ mic_sample = 0
    /\ capture_sample = 0
    /\ filtered = 0
    /\ sig_pending = 0
    /\ sender_alive = FALSE
    /\ debug_channel = dbg
    /\ plot_rx_alive = dbg
    /\ mc_pc = "idle"
    /\ mc_data = <<>>
    /\ mc_k = 0
    /\ mc_fell = FALSE
    /\ mc_calls = 0
    /\ cc_pc = "idle"
    /\ cc_data = <<>>
    /\ cc_k = 0
    /\ cc_fell = FALSE
    /\ cc_log = <<>>
    /\ cc_ring0 = <<>>
    /\ bench_popped = <<>>
    /\ pc_pc = "idle"
    /\ pc_data = <<>>
    /\ pc_i = 0
    /\ pc_flag = FALSE
    /\ pc_last = 0
    /\ pc_fell = FALSE
    /\ pc_log = <<>>
    /\ pc_ring0 = <<>>

\* caller, thread and callbacks before anything has run
InitControl == InitControlWith(FALSE)

\* nothing was popped or pushed by the engine yet
NoIo == [mic |-> 0, ref |-> 0, out |-> 0]

\* no telemetry tuple was sent yet
NoTelemetry == [sent |-> 0, since |-> 0, gap |-> 0, last |-> <<>>]

\* the filter and the delay line are not followed
InitDspIdle ==
    /\ nlmf_filter = NewNLMF(Fin(1), Fin(1), ZeroWeights)
    /\ ad = AdIdle(0)
    /\ filter_buffer = <<>>
    /\ filter_input = <<>>
    /\ ref_hist = <<>>
    /\ io = NoIo
    /\ tel = NoTelemetry
    /\ InitBiquadIdle
    /\ trace = NoTrace

InitWith(cap, rec, nin, nout) ==
    /\ setup = [record |-> rec, telemetry |-> FALSE, biquads |-> FALSE, nin |-> nin, nout |-> nout]
    /\ mic_buffer = Prefilled(cap, nin)
    /\ capture_buffer = Prefilled(cap, nin)
    /\ output_buffer = Prefilled(cap, nout)
    /\ InitControl
    /\ InitDspIdle

\* rings filled to any level before the engine is built
InitSched ==
    \E nin \in 0..RingCap, nout \in 0..RingCap :
        InitWith(RingCap, FALSE, nin, nout)

\* rings half full, as bin/main.rs:211-218 leaves them
Init == InitWith(RingCap, FALSE, RingCap \div 2, RingCap \div 2)

CallerStep ==
    \/ SetDebug \/ DropPlotReceiver \/ StartThreadSpawn \/ StartThreadReturn
    \/ StoreHandleLock \/ StoreHandleWrite \/ KillSend \/ KillJoin
    \/ DropRunning

NextSched ==
    \/ CallerStep \/ ProcStep \/ SpuriousWake
    \/ MicCbStart(MicBlocks) \/ MicCbPush \/ MicCbUnpark

\* the thread is started once and runs against the three audio callbacks
Next ==
    \/ StartThreadSpawn \/ StartThreadReturn
    \/ StoreHandleLock \/ StoreHandleWrite
    \/ ProcStep \/ SpuriousWake
    \/ MicCbStart(MicBlocks) \/ MicCbPush \/ MicCbUnpark
    \/ CapCbStart(CapBlocks) \/ CapCbPush \/ CapCbEnd
    \/ PlayCbStart(MainOutLens) \/ PlayCbSlot \/ PlayCbEnd

Spec == Init /\ [][Next]_vars

SpecSched == InitSched /\ [][NextSched]_vars

\* input rings empty or holding one sample each, and an empty output ring,
\* when the engine is built
InitStart == \E nin \in {0, 1} : InitWith(RingCap, FALSE, nin, 0)

\* SpecSched from one set-up, under fair scheduling: the processing thread
\* takes a step it can take (the spin loop of start_thread releases the mutex
\* and yields at every turn, so the thread gets to lock it), and the spin loop
\* sees a slot that is Some
SpecStart ==
    /\ InitStart
    /\ [][NextSched]_vars
    /\ WF_vars(ProcStep)
    /\ WF_vars(StartThreadReturn)

\* telemetry switched on before the engine is started (main.rs:277-283), the
\* rings half full; the tuples sent are kept, the delay line is not followed
InitTelemetry ==
    /\ setup = [record |-> FALSE, telemetry |-> TRUE, biquads |-> FALSE,
                nin |-> RingCap \div 2, nout |-> RingCap \div 2]
    /\ mic_buffer = Prefilled(RingCap, RingCap \div 2)
    /\ capture_buffer = Prefilled(RingCap, RingCap \div 2)
    /\ output_buffer = Prefilled(RingCap, RingCap \div 2)
    /\ InitControlWith(TRUE)
    /\ nlmf_filter = NewNLMF(Fin(1), Fin(1), ZeroWeights)
    /\ ad = AdIdle(0)
    /\ filter_buffer = <<>>
    /\ filter_input = <<>>
    /\ ref_hist = <<>>
    /\ io = NoIo
    /\ tel = NoTelemetry
    /\ InitBiquadIdle
    /\ trace = NoTrace

\* the thread, started once and woken from park() at any time, against the
\* three audio callbacks; the handle is not stored for the callback yet
NextDrain ==
    \/ StartThreadSpawn \/ StartThreadReturn
    \/ ProcPublish \/ ProcCheck \/ ProcGuard \/ ProcPopMic \/ ProcPopCapture
    \/ ProcCompute \/ ProcPush \/ ProcFillCheck \/ ProcFill \/ SpuriousWake
    \/ MicCbStart(MicBlocks) \/ MicCbPush \/ MicCbUnpark
    \/ CapCbStart(CapBlocks) \/ CapCbPush \/ CapCbEnd
    \/ PlayCbStart(MainOutLens) \/ PlayCbSlot \/ PlayCbEnd

\* the engine draining its rings against the three audio callbacks
SpecDrain == Init /\ [][NextDrain]_vars

\* the engine with telemetry on against the three audio callbacks
SpecTelemetry == InitTelemetry /\ [][NextDrain]_vars

\* SpecStart, where moreover join() returns once the thread has ended
SpecKill ==
    /\ InitStart
    /\ [][NextSched]_vars
    /\ WF_vars(ProcStep)
    /\ WF_vars(StartThreadReturn)
    /\ WF_vars(KillJoin)

\* a ring holding n samples of the stream 1, 1, 1, ..
Ones(cap, n) == [capacity |-> cap, items |-> [i \in 1..n |-> 1]]

\* the engine as AECFiltering::new builds it, its delay line and its biquads
\* followed, over input rings the callbacks have written the stream
\* 1, 1, 1, .. to
InitRestart ==
    /\ \E m \in 0..RingCap :
        /\ setup = [record |-> FALSE, telemetry |-> FALSE, biquads |-> TRUE,
                    nin |-> m, nout |-> 0]
        /\ mic_buffer = Ones(RingCap, m)
    /\ capture_buffer = Ones(RingCap, RingCap)
    /\ output_buffer = Prefilled(RingCap, 0)
    /\ InitControl
    /\ nlmf_filter = NewNLMF(Fin(1), Fin(1), ZeroWeights)
    /\ ad = AdIdle(0)
    /\ filter_buffer = PrimedQueue
    /\ filter_input = <<>>
    /\ ref_hist = <<>>
    /\ io = NoIo
    /\ tel = NoTelemetry
    /\ InitBiquadIdle
    /\ trace = NoTrace

\* the caller setting the telemetry sender, starting the engine, killing it
\* and starting it again (main.rs:279-300), and the thread, woken from park()
\* at any time
NextRestart ==
    \/ SetDebug \/ StartThreadSpawn \/ StartThreadReturn \/ KillSend \/ KillJoin
    \/ ProcPublish \/ ProcCheck \/ ProcGuard \/ ProcPopMic \/ ProcPopCapture
    \/ ProcCompute \/ ProcPush \/ ProcFillCheck \/ ProcFill \/ SpuriousWake

SpecRestart == InitRestart /\ [][NextRestart]_vars

\* Init with the input rings holding no or one zero each and the output
\* ring empty, the order history kept
InitOrder ==
    /\ \E nin \in {0, 1} :
        /\ setup = [record |-> FALSE, telemetry |-> FALSE, biquads |-> FALSE,
                    nin |-> nin, nout |-> 0]
        /\ mic_buffer = Prefilled(RingCap, nin)
        /\ capture_buffer = Prefilled(RingCap, nin)
        /\ output_buffer = Prefilled(RingCap, 0)
    /\ InitControl
    /\ nlmf_filter = NewNLMF(Fin(1), Fin(1), ZeroWeights)
    /\ ad = AdIdle(0)
    /\ filter_buffer = <<>>
    /\ filter_input = <<>>
    /\ ref_hist = <<>>
    /\ io = NoIo
    /\ tel = NoTelemetry
    /\ lowpass_filter = NewFilter(LowPassParams)
    /\ highpass_fiter = NewFilter(HighPassParams)
    /\ tk = TickIdle(LowPassParams)
    /\ trace = EmptyTrace

\* the thread, started once and woken from park() at any time, against the
\* two capture callbacks
NextOrder ==
    \/ StartThreadSpawn \/ StartThreadReturn
    \/ ProcPublish \/ ProcCheck \/ ProcGuard \/ ProcPopMic \/ ProcPopCapture
    \/ ProcCompute \/ ProcPush \/ ProcFillCheck \/ ProcFill \/ SpuriousWake
    \/ MicCbStart(OrderMicBlocks) \/ MicCbPush \/ MicCbUnpark
    \/ CapCbStart(OrderCapBlocks) \/ CapCbPush \/ CapCbEnd

SpecOrder == InitOrder /\ [][NextOrder]_vars

\* a filter as Filter::new builds it, the engine not started
InitBiquad ==
    /\ setup = [record |-> FALSE, telemetry |-> FALSE, biquads |-> FALSE, nin |-> 0, nout |-> 0]
    /\ mic_buffer = Prefilled(BenchCap, 0)
    /\ capture_buffer = Prefilled(BenchCap, 0)
    /\ output_buffer = Prefilled(BenchCap, 0)
    /\ InitControl
    /\ nlmf_filter = NewNLMF(Fin(1), Fin(1), ZeroWeights)
    /\ ad = AdIdle(0)
    /\ filter_buffer = <<>>
    /\ filter_input = <<>>
    /\ ref_hist = <<>>
    /\ io = NoIo
    /\ tel = NoTelemetry
    /\ highpass_fiter = NewFilter(HighPassParams)
    /\ \E c \in BiquadParams :
        /\ lowpass_filter = NewFilter(c)
        /\ tk = TickIdle(c)
    /\ trace = NoTrace

NextBiquad == BiquadTick(TickInputs)

SpecBiquad == InitBiquad /\ [][NextBiquad]_vars

\* the harness of benches/my_benchmark.rs: rings start empty
InitBench == InitWith(BenchCap, TRUE, 0, 0)

NextDownmix ==
    \/ CapCbStart(DownmixBlocks) \/ CapCbPush \/ CapCbEnd \/ RigPop

NextUpmix ==
    \/ PlayCbStart(UpmixLens) \/ PlayCbSlot \/ PlayCbEnd \/ RigPush(MonoVals)

SpecDownmix == InitBench /\ [][NextDownmix]_vars

SpecUpmix == InitBench /\ [][NextUpmix]_vars

\* a filter as benches/my_benchmark.rs or AECFiltering::new builds it
InitAdapt ==
    /\ setup = [record |-> TRUE, telemetry |-> FALSE, biquads |-> FALSE, nin |-> 0, nout |-> 0]
    /\ mic_buffer = Prefilled(BenchCap, 0)
    /\ capture_buffer = Prefilled(BenchCap, 0)
    /\ output_buffer = Prefilled(BenchCap, 0)
    /\ InitControl
    /\ \E w \in AdaptWeights, mu \in AdaptMus :
          nlmf_filter = NewNLMF(mu, Fin(1), w)
    /\ ad = AdIdle(0)
    /\ filter_buffer = <<>>
    /\ filter_input = <<>>
    /\ ref_hist = <<>>
    /\ io = NoIo
    /\ tel = NoTelemetry
    /\ InitBiquadIdle
    /\ trace = NoTrace

NextAdapt ==
    \/ AdaptCall(AdaptWindows, AdaptTargets, AdaptThresholds, OtherThresholds)
    \/ AdaptReturn

SpecAdapt == InitAdapt /\ [][NextAdapt]_vars

\* capacity of the rings under SpecEngine: room for more reference samples
\* than the delay line holds
EngCap == FilterBufferLen + 2

\* samples the microphone ring holds when the engine is built, under SpecEngine
EngMicFills == {0, 1, EngCap - 1}

\* samples the output ring holds when the engine is built, under SpecEngine
EngOutFills == {0, 1}

\* the engine as AECFiltering::new builds it, over rings the callbacks have
\* written to already: silence from the microphone, the samples 1, 2, 3, ..
\* from the reference
InitEngine ==
    /\ \E m \in EngMicFills, o \in EngOutFills :
        /\ setup = [record |-> FALSE, telemetry |-> TRUE, biquads |-> FALSE, nin |-> m, nout |-> o]
        /\ mic_buffer = Prefilled(EngCap, m)
        /\ output_buffer = Prefilled(EngCap, o)
    /\ capture_buffer = [capacity |-> EngCap,
                         items |-> [i \in 1..(EngCap - 1) |-> i]]
    /\ InitControl
    /\ nlmf_filter = NewNLMF(Fin(1), Fin(1), ZeroWeights)
    /\ ad = AdIdle(0)
    /\ filter_buffer = PrimedQueue
    /\ filter_input = <<>>
    /\ ref_hist = <<>>
    /\ io = NoIo
    /\ tel = NoTelemetry
    /\ InitBiquadIdle
    /\ trace = NoTrace

NextEngine ==
    \/ SetDebug \/ StartThreadSpawn \/ StartThreadReturn
    \/ StoreHandleLock \/ StoreHandleWrite
    \/ ProcStep \/ SpuriousWake
    \/ MicCbStart(MicBlocks) \/ MicCbPush \/ MicCbUnpark

SpecEngine == InitEngine /\ [][NextEngine]_vars

\* the engine fed the same stream as microphone and as reference (a unity
\* echo path): the callbacks have written that stream to both input rings,
\* and the microphone callback goes on writing it
InitEcho ==
    /\ \E m \in {1, EngCap - 1}, o \in EngOutFills :
        /\ setup = [record |-> FALSE, telemetry |-> FALSE, biquads |-> FALSE, nin |-> m, nout |-> o]
        /\ mic_buffer = Ones(EngCap, m)
        /\ output_buffer = Prefilled(EngCap, o)
    /\ capture_buffer = Ones(EngCap, EngCap - 1)
    /\ InitControl
    /\ nlmf_filter = NewNLMF(Fin(1), Fin(1), ZeroWeights)
    /\ ad = AdIdle(0)
    /\ filter_buffer = PrimedQueue
    /\ filter_input = <<>>
    /\ ref_hist = <<>>
    /\ io = NoIo
    /\ tel = NoTelemetry
    /\ InitBiquadIdle
    /\ trace = NoTrace

SpecEcho == InitEcho /\ [][NextEngine]_vars

(* ------------------------------ claims -------------------------------- *)

\* positions of process() inside the drain loop
DrainPcs == {"guard", "pop_mic", "pop_capture", "compute", "push"}

\* the values of the log entries whose operation succeeded, in order
Succeeded(log) ==
    LET kept == SelectSeq(log, LAMBDA e : e[2])
    IN  [k \in 1..Len(kept) |-> kept[k][1]]

\* some entry of the log failed
SomeFailed(log) == \E k \in 1..Len(log) : ~log[k][2]

\* no sample was put in any ring before the engine was built and no audio
\* callback has run since
NothingEnqueued == setup.nin = 0 /\ setup.nout = 0 /\ mc_calls = 0

\* C1 (as claimed): after start_thread() and kill() with no sample enqueued
\* and no audio callback run, kill() returns: while the caller waits in join()
\* the thread can go on by itself, or has ended so that join() completes; it
\* is never left waiting for an unpark.  Checked under SpecSched.
C1_KillReturns ==
    (NothingEnqueued /\ main_pc = "join")
      => (ENABLED ProcStep \/ ENABLED KillJoin)

\* C2 (as claimed): a thread suspended in park() to which no unpark was
\* delivered resumes by itself (a fallback wake-up): its next step does not
\* depend on another thread.  Checked under SpecSched.
C2_FallbackWake ==
    (ProcAlive /\ proc_pc = "park" /\ ~token) => ENABLED ProcStep

\* C3: the kill signal is looked at only at the top of the outer loop: the
\* thread ends only from the shutdown check; a pending signal does not take it
\* out of the drain loop, which ends normally only when its guard is false;
\* and once the thread has ended the engine pops and pushes nothing.
\* Checked under SpecSched.
C3_CooperativeCancel ==
    [][ /\ (proc_pc' = "done" /\ proc_pc /= "done") => proc_pc = "check"
        /\ (proc_pc \in DrainPcs /\ StopRequested)
              => proc_pc' \in DrainPcs \cup {"fillcheck", "panicked"}
        /\ (proc_pc \in DrainPcs /\ proc_pc' = "fillcheck")
              => (proc_pc = "guard" /\ ~DrainGuard)
        /\ (proc_pc = "done" /\ proc_pc' = "done")
              => /\ capture_buffer' = capture_buffer
                 /\ output_buffer' = output_buffer
                 /\ RingLen(mic_buffer') >= RingLen(mic_buffer)
      ]_vars

\* C3 witness: a kill signal is pending while the thread is in the drain loop
\* with one sample of the batch already processed
C3_Witness ==
    /\ sig_pending > 0
    /\ proc_pc \in {"pop_mic", "pop_capture", "compute", "push"}
    /\ counter >= 1

\* C4: once the thread has panicked it stays so (no restart), and kill()
\* never hands an engine back: it cannot reach join() any more, and a join()
\* already under way ends in a panic of the caller.  Checked under SpecSched.
C4_PanicSurfaces ==
    [][ proc_pc = "panicked"
          => /\ proc_pc' = "panicked"
             /\ gen' = gen
             /\ main_pc' /= "idle"
             /\ (main_pc' = "join" => main_pc = "join")
             /\ (main_pc = "join" /\ main_pc' /= "join") => main_pc' = "panicked"
             /\ (main_pc = "running" /\ sender_alive /\ main_pc' = "panicked")
                   => sig_pending' = sig_pending
      ]_vars

\* C4 witness: the thread panicked and the kill() that followed panicked in
\* the caller
C4_Witness == proc_pc = "panicked" /\ main_pc = "panicked"

\* C5: for each of the three rings, pushed minus popped (the number of
\* stored samples) stays within 0..capacity.  Checked under SpecDrain.
C5_Occupancy ==
    \A r \in {mic_buffer, capture_buffer, output_buffer} :
        RingLen(r) >= 0 /\ RingLen(r) <= r.capacity

\* C5 witness: the thread runs, an input ring is full with an overrun under
\* way, and the playback callback has met an empty ring
C5_Witness ==
    /\ ProcAlive
    /\ RingIsFull(capture_buffer) /\ cc_fell
    /\ RingIsFull(mic_buffer) /\ mc_fell
    /\ pc_fell

\* C6: the ring is FIFO: what was stored when a call began followed by what
\* the call pushed equals what was popped since followed by what is stored; a
\* push on a full ring fails and leaves the ring as it was.
\* Checked under SpecDownmix.
C6_Fifo ==
    /\ [](cc_pc = "loop" =>
            /\ cc_ring0 \o Succeeded(cc_log)
                  = bench_popped \o capture_buffer.items
            /\ RingLen(capture_buffer) <= capture_buffer.capacity)
    /\ [][ (cc_pc = "loop" /\ cc_k' = cc_k + 1 /\ RingIsFull(capture_buffer))
              => /\ capture_buffer' = capture_buffer
                 /\ ~cc_log'[Len(cc_log')][2]
          ]_vars

\* C6 witness: capacity-many different samples pushed into an empty ring have
\* all been popped again, in the order pushed
C6_Witness ==
    /\ cc_pc = "loop"
    /\ cc_ring0 = <<>>
    /\ Len(bench_popped) = BenchCap
    /\ bench_popped = Succeeded(cc_log)
    /\ bench_popped[1] /= bench_popped[2]

\* the callback is past its loop
CapCbLoopOver == cc_pc = "loop" /\ cc_k > Len(Pairs(cc_data))

\* C7 (as claimed): a block of length 2m given to the callback with at least
\* m free slots appends exactly m samples, the k-th being
\* 0.5 * (data[2k] + data[2k+1]).  Checked under SpecDownmix.
C7_Downmix ==
    (/\ CapCbLoopOver
     /\ capture_buffer.capacity - Len(cc_ring0) >= Len(cc_data) \div 2)
      => Succeeded(cc_log)
           = [k \in 1..(Len(cc_data) \div 2)
                |-> Merged(PairsLeftRight(cc_data)[k])]

\* C8: every pair of the callback is tried once, in order, pushed or dropped:
\* a dropped sample is not in the ring and is not tried again, the overrun is
\* noted, and the callback never waits: with a pair left it can push, past
\* the last pair it can return.  Checked under SpecDownmix.
C8_Overrun ==
    cc_pc = "loop" =>
        /\ Len(cc_log) = cc_k - 1
        /\ cc_k <= Len(Pairs(cc_data)) + 1
        /\ \A k \in 1..Len(cc_log) : cc_log[k][1] = Merged(Pairs(cc_data)[k])
        /\ Len(bench_popped) + RingLen(capture_buffer)
              = Len(cc_ring0) + Len(Succeeded(cc_log))
        /\ cc_fell = SomeFailed(cc_log)
        /\ IF cc_k <= Len(Pairs(cc_data))
           THEN ENABLED CapCbPush ELSE ENABLED CapCbEnd

\* C8 witness: in one call a sample was dropped and a later one was pushed
C8_Witness ==
    /\ CapCbLoopOver
    /\ Len(cc_log) = 2
    /\ ~cc_log[1][2]
    /\ cc_log[2][2]
    /\ cc_log[1][1] /= cc_log[2][1]

\* the callback is past its loop
PlayCbLoopOver == pc_pc = "loop" /\ pc_i > Len(pc_data)

\* C9: a block of length 2m given to the callback when the ring holds at
\* least m samples is filled from exactly m pops, the k-th stored sample in
\* both slots of pair k.  Checked under SpecUpmix.
C9_Upmix ==
    (PlayCbLoopOver /\ 2 * Len(pc_ring0) >= Len(pc_data))
      => /\ Len(pc_log) = Len(pc_data) \div 2
         /\ ~SomeFailed(pc_log)
         /\ \A k \in 1..(Len(pc_data) \div 2) :
                /\ pc_data[2 * k - 1] = pc_ring0[k]
                /\ pc_data[2 * k] = pc_ring0[k]

\* C9 witness: the ring held <<2, 4>> and the block is <<2, 2, 4, 4>>
C9_Witness ==
    /\ PlayCbLoopOver
    /\ pc_ring0 = <<2, 4>>
    /\ pc_data = <<2, 2, 4, 4>>

\* C10 (as claimed): a pair whose pop failed is silence in both slots,
\* whatever was popped before.  Checked under SpecUpmix.
C10_UnderrunSilence ==
    \A k \in 1..Len(pc_log) :
        (pc_pc = "loop" /\ pc_i > 2 * k /\ ~pc_log[k][2])
          => (pc_data[2 * k - 1] = 0 /\ pc_data[2 * k] = 0)

\* a call of adapt() is over: it returned or it panicked
AdaptOver == ad.pc \in {"returned", "panicked"}

\* target - output of the call under way
AdError == FSub(ad.target, ad.res.output)

\* the weights before the call with every dws[i] added
FullyUpdated(dws) == [i \in 1..N_TAPS |-> FAdd(ad.pre[i], dws[i])]

BothReturned == ad.pc = "returned" /\ ad.other.status = "returned"

\* exactly one of the two thresholds admits the update
OneAdmits ==
    FLt(ad.res.novelty, ad.threshold)
      /= FLt(ad.other.novelty, ad.other_threshold)

\* C12 (as claimed): two filters in the same state, same window and target,
\* different thresholds, return the same (output, novelty), and their weights
\* differ whenever one threshold admits the update and the other does not.
\* Checked under SpecAdapt.
C12_ThresholdBlind ==
    BothReturned =>
        /\ ad.res.output = ad.other.output
        /\ ad.res.novelty = ad.other.novelty
        /\ OneAdmits => nlmf_filter.weights /= ad.other.weights

\* C12 (amended): both calls compute the same (output, novelty), and their
\* weights differ exactly when one threshold admits the update, the other
\* does not, and the update changes some weight.  Checked under SpecAdapt.
C12_ThresholdBlindAmended ==
    AdaptOver =>
        /\ ad.res.output = ad.other.output
        /\ ad.res.novelty = ad.other.novelty
        /\ (nlmf_filter.weights /= ad.other.weights)
              <=> (OneAdmits /\ FullyUpdated(ad.res.dws) /= ad.pre)

\* C12 witness: the benchmark's two thresholds on a window that moves the
\* weights: same (output, novelty), different weights
C12_Witness ==
    /\ BothReturned
    /\ OneAdmits
    /\ ad.res.novelty /= Fin(0)
    /\ nlmf_filter.weights /= ad.other.weights

\* C13 (as claimed): with an all-zero window, whatever the target and the
\* threshold, adapt() returns output 0 and the weights are as before.
\* Checked under SpecAdapt.
C13_SilentWindow ==
    (AdaptOver /\ ad.input = ZeroWeights)
      => /\ ad.pc = "returned"
         /\ ad.res.output = Fin(0)
         /\ nlmf_filter.weights = ad.pre

\* C14 (as claimed): after any call of adapt(), whatever the samples, no
\* weight is NaN and the weights are either as before or fully updated.
\* Checked under SpecAdapt.
C14_NoNaNWeight ==
    AdaptOver =>
        /\ \A i \in 1..N_TAPS : ~IsNaN(nlmf_filter.weights[i])
        /\ \/ nlmf_filter.weights = ad.pre
           \/ nlmf_filter.weights = FullyUpdated(ad.res.dws)

\* C15 (as claimed): every window the engine passes to adapt() is as long
\* as the filter's weight vector.  Checked under SpecEngine.
C15_SameLength ==
    filter_input /= <<>> => Len(filter_input) = Len(nlmf_filter.weights)

\* the k most recent reference samples, oldest first
MostRecent(k) == SubSeq(ref_hist, Len(ref_hist) - k + 1, Len(ref_hist))

\* C16: the delay line always holds exactly N samples (N its capacity), and
\* after r reference samples these are N - min(r, N) priming zeros followed by
\* the min(r, N) most recent samples: each push evicts the oldest element.
\* Checked under SpecEngine.
C16_DelayLine ==
    DelayFollowed =>
        LET k == Min(Len(ref_hist), FilterBufferLen)
        IN  /\ Len(filter_buffer) = FilterBufferLen
            /\ filter_buffer
                 = [i \in 1..(FilterBufferLen - k) |-> 0] \o MostRecent(k)

\* C16 witness: more reference samples were pushed than the delay line holds,
\* and the oldest one it retains is a sample, not a priming zero
C16_Witness ==
    /\ Len(ref_hist) > FilterBufferLen
    /\ filter_buffer[1] = ref_hist[Len(ref_hist) - FilterBufferLen + 1]
    /\ filter_buffer[1] /= 0
    /\ filter_buffer[FilterBufferLen] = ref_hist[Len(ref_hist)]

\* C17 (as claimed): the window handed to adapt() is the delay line from the
\* oldest sample to the newest: its first element is the oldest retained
\* sample, its last the reference sample just popped.  Checked under SpecEngine.
C17_WindowOrder ==
    (DelayFollowed /\ proc_pc = "push")
      => /\ filter_input = filter_buffer
         /\ filter_input[1] = filter_buffer[1]
         /\ filter_input[Len(filter_input)] = capture_sample

\* C17 (amended): the window handed to adapt() is the delay line from the
\* newest sample to the oldest: its first element is the reference sample just
\* popped, its last the oldest retained sample.  Checked under SpecEngine.
C17_WindowNewestFirst ==
    (DelayFollowed /\ proc_pc = "push")
      => /\ Len(filter_input) = Len(filter_buffer)
         /\ \A i \in 1..Len(filter_input) :
               filter_input[i] = filter_buffer[Len(filter_buffer) + 1 - i]
         /\ filter_input[1] = capture_sample
         /\ filter_input[Len(filter_input)] = filter_buffer[1]

\* C17 witness: a window was built from a delay line holding at least two
\* distinct samples, so that the two orders differ
C17_Witness ==
    /\ DelayFollowed
    /\ proc_pc = "push"
    /\ Len(ref_hist) >= 2
    /\ filter_input[1] = ref_hist[Len(ref_hist)]
    /\ filter_input[2] = ref_hist[Len(ref_hist) - 1]
    /\ filter_input[1] /= filter_input[2]

\* C18 (as claimed): silence is pushed only when the output ring is below 20%
\* of its capacity, and, nothing being popped meanwhile, the ring is half full
\* when the fill is over.  Checked under SpecEngine, where nothing pops.
C18_SilenceFill ==
    proc_pc = "fill" =>
        LET cap == output_buffer.capacity
            before == RingLen(output_buffer) - (cap \div 2 - fill_left)
        IN  /\ 5 * before < cap
            /\ fill_left = 0 => RingLen(output_buffer) = cap \div 2

\* C19 (as claimed): with telemetry on, 1000 samples are processed between
\* two consecutive tuples, however the samples fall into batches.
\* Checked under SpecEngine.
C19_TelemetryStride == tel.sent >= 2 => tel.gap = TelemetryStride

\* callback_and_unpark is past its loop, about to try the lock
MicCbAtLock == mc_pc = "loop" /\ mc_k > Len(Pairs(mc_data))

\* C20: callback_and_unpark never waits for the mutex of the parking handle:
\* past its loop it can always take its last step, whoever holds the mutex;
\* when the mutex is held or the slot is None that step issues no unpark (the
\* token is left alone) and returns, every pair of the block having been
\* pushed before and the rings being left as they are.  Checked under
\* SpecSched.
C20_BestEffortUnpark ==
    /\ [](MicCbAtLock => ENABLED MicCbUnpark)
    /\ [][(mc_pc = "loop" /\ mc_pc' = "idle")
            => /\ mc_k = Len(Pairs(mc_data)) + 1
               /\ UNCHANGED ringVars
               /\ ~UnparkIssued => UNCHANGED token]_vars

\* C20 witness: a call with samples to push has returned while the slot was
\* still None, and the caller holds the mutex
C20_Witness ==
    /\ mc_pc = "idle"
    /\ mc_calls >= 1
    /\ shared_slot = 0
    /\ mutex = "main"
    /\ RingLen(mic_buffer) > setup.nin

\* C21: at most one thread runs process() on an engine, over any sequence of
\* start_thread and kill: a thread is spawned only when none is alive, and
\* whenever the caller holds the engine (it may start it) no thread is alive,
\* kill() having joined the one before.  Checked under SpecSched.
C21_SingleProcessor ==
    /\ [](main_pc = "idle" => ~ProcAlive)
    /\ [][gen' /= gen => (~ProcAlive /\ main_pc = "idle")]_vars

\* C21 witness: the engine was killed and started again, and the second
\* thread is in its drain loop
C21_Witness == gen = 2 /\ proc_pc \in {"pop_mic", "pop_capture", "compute", "push"}

\* C22 (as claimed): the thread is at park() only after an outer iteration
\* whose drain processed no sample (counter, set to 0 at the top of the
\* iteration, counts the samples of the batch).  Checked under SpecSched.
C22_ParkOnlyWhenIdle == proc_pc = "park" => counter = 0

\* C23: start_thread() leaves its spin loop only by returning, only once the
\* spawned thread has published its own handle, and what it returns is the
\* handle of that thread; under fair scheduling every start_thread() returns.
\* Checked under SpecStart.
C23_StartReturns ==
    /\ [][(main_pc = "spin" /\ main_pc' /= "spin")
            => /\ published = gen
               /\ gen /= 0
               /\ proc_pc /= "publish"
               /\ ret_handle' = gen
               /\ main_pc' = "running"]_vars
    /\ (main_pc = "spin" ~> main_pc = "running")

\* C23 witness: start_thread() has returned for the second time, with the
\* handle of the second thread
C23_Witness == main_pc = "running" /\ gen = 2 /\ ret_handle = 2

\* a fill ratio lies in [0, 1]
InUnit(q) == q.den > 0 /\ 0 <= q.num /\ q.num <= q.den

\* C24: the three fill ratios of every telemetry tuple the engine sends lie
\* in [0, 1], however the audio callbacks interleave with the engine.
\* Checked under SpecTelemetry.
C24_RatiosInUnit ==
    tel.last /= <<>> => \A j \in 1..3 : InUnit(tel.last[j])

\* C24 witness: a tuple was sent with the microphone ring full (ratio 1) and
\* the output ring empty (ratio 0)
C24_Witness ==
    /\ tel.last /= <<>>
    /\ tel.last[1].num = tel.last[1].den
    /\ tel.last[3].num = 0

\* the microphone stream is the reference stream: both rings hold samples
\* of the stream 1, 1, 1, ..
MicIsRef ==
    /\ \A i \in 1..RingLen(mic_buffer) : mic_buffer.items[i] = 1
    /\ \A i \in 1..RingLen(capture_buffer) : capture_buffer.items[i] = 1

C26_PopsSucceed ==
    /\ proc_pc = "pop_mic"
         => ~RingIsEmpty(mic_buffer) /\ ~RingIsEmpty(capture_buffer)
    /\ proc_pc = "pop_capture" => ~RingIsEmpty(capture_buffer)

\* C26 witness: both pops have returned the last sample of their ring while
\* the two capture callbacks were in the middle of a block
C26_Witness ==
    /\ proc_pc = "compute"
    /\ RingIsEmpty(mic_buffer)
    /\ RingIsEmpty(capture_buffer)
    /\ mc_pc = "loop"
    /\ cc_pc = "loop"

\* C27: no push of the engine fails: the output ring is not full when the
\* thread is about to push a filtered sample, so the overrun break is never
\* taken, and it is not full when the thread is about to push a sample of
\* silence.  Checked under SpecDrain.
C27_PushesSucceed ==
    /\ proc_pc = "push" => RingPush(output_buffer, filtered).ok
    /\ (proc_pc = "fill" /\ fill_left > 0) => RingPush(output_buffer, 0).ok

\* C27 witness: the push of a filtered sample has filled the output ring to
\* its capacity while the playback callback was in the middle of a block
C27_Witness ==
    /\ proc_pc = "guard"
    /\ counter >= 1
    /\ RingIsFull(output_buffer)
    /\ pc_pc = "loop"

\* positions of process() between two iterations of the drain loop and
\* outside it
LoopBoundary == proc_pc \in {"check", "guard", "fillcheck", "fill", "park", "done"}

\* C28: the engine consumes its inputs in lockstep and produces one output
\* per pair: between iterations it has popped as many microphone samples as
\* reference samples and pushed as many filtered samples; and an iteration is
\* entered only with both input rings non-empty and the output ring not full.
\* Checked under SpecEngine.
C28_Lockstep ==
    /\ [](LoopBoundary => (io.mic = io.ref /\ io.ref = io.out))
    /\ [][(proc_pc = "guard" /\ proc_pc' = "pop_mic") => DrainGuard]_vars

\* C28 witness: the drain loop has ended after at least two pairs, because
\* the microphone ring ran empty before the reference ring
C28_Witness ==
    /\ proc_pc = "fillcheck"
    /\ io.out >= 2
    /\ RingIsEmpty(mic_buffer)
    /\ ~RingIsEmpty(capture_buffer)

\* C29: callback_and_unpark issues its unpark only after every push attempt
\* of the block: the step that ends the call, the only one that unparks, is
\* taken with every pair of the block behind it and leaves the rings alone,
\* and no sample is pushed by a step that touches the token; so whatever the
\* block has enqueued is in the microphone ring, or already popped by the
\* engine, when the unpark is delivered.  Checked under SpecSched.
C29_UnparkAfterPushes ==
    [][ /\ (mc_pc = "loop" /\ mc_pc' = "idle")
            => (mc_k = Len(Pairs(mc_data)) + 1 /\ UNCHANGED ringVars)
        /\ (token' /\ ~token) => (mc_pc = "loop" /\ mc_pc' = "idle")
        /\ RingLen(mic_buffer') > RingLen(mic_buffer) => UNCHANGED token
      ]_vars

\* C29 witness: an unpark was delivered to the parked thread after the block
\* had put a sample in the microphone ring, which is still there
C29_Witness ==
    /\ proc_pc = "park"
    /\ token
    /\ mc_pc = "idle"
    /\ mc_calls >= 1
    /\ RingLen(mic_buffer) > setup.nin

\* C30: no wake-up is lost between an unpark and a park: an unpark issued on
\* the handle of the live thread sets its token wherever the thread is in its
\* loop; the token stays until a park() of that thread takes it, and that
\* park() returns at once to the shutdown check (from where the drain guard
\* follows unless the check ends the thread); under fair scheduling a token
\* is always taken, unless the thread ends first.  Checked under SpecStart.
C30_NoLostWakeup ==
    /\ [][ /\ (mc_pc = "loop" /\ mc_pc' = "idle" /\ UnparkIssued
                 /\ shared_slot = gen /\ ProcAlive) => token'
           /\ (token /\ ~token')
                => \/ proc_pc = "park" /\ proc_pc' = "check"
                   \/ gen' /= gen
         ]_vars
    /\ []((proc_pc = "park" /\ token) => ENABLED ProcPark)
    /\ ((token /\ ProcAlive) ~> (~token \/ ~ProcAlive))

\* C30 witness: the token is set while the thread is inside its drain loop
C30_Witness ==
    /\ token
    /\ shared_slot = gen
    /\ proc_pc \in {"pop_mic", "pop_capture", "compute", "push"}

\* kill() has sent its signal and waits in join() while the thread is parked
KilledWhileParked == main_pc = "join" /\ proc_pc = "park"

\* C31: when kill() was called on a parked thread and a callback_and_unpark
\* then runs with that thread's handle in the shared slot and the mutex free,
\* the callback sets the thread's token; the thread then wakes, finds the kill
\* signal at the top of its loop and ends, and kill() returns the engine.
\* Checked under SpecKill.
C31_KillAfterUnpark ==
    /\ [][(KilledWhileParked /\ mc_pc = "loop" /\ mc_pc' = "idle"
             /\ shared_slot = gen /\ mutex = "free") => token']_vars
    /\ [][(KilledWhileParked /\ proc_pc' /= "park")
             => (proc_pc' = "check" /\ StopRequested)]_vars
    /\ ((KilledWhileParked /\ token) ~> (main_pc = "idle" /\ proc_pc = "none"))

\* C31 witness: kill() waits in join(), the thread is parked, and a callback
\* that ran with the thread's handle in the slot has left it the token
C31_Witness ==
    /\ KilledWhileParked
    /\ token
    /\ sig_pending > 0
    /\ shared_slot = gen
    /\ mc_calls >= 1
    /\ mc_pc = "idle"

\* the signal sender was dropped with no kill signal sent
Disconnected == main_pc = "dropped" /\ ~sender_alive /\ sig_pending = 0

\* C36: once the RunningAECFiltering was dropped without kill(), the step
\* the thread takes from the top of its outer loop ends the thread, as a kill
\* signal would, and that step touches no ring, no sample and no filter state.
C36_DisconnectStops ==
    [][(Disconnected /\ proc_pc = "check" /\ proc_pc' /= "check")
         => /\ proc_pc' = "done"
            /\ UNCHANGED <<ringVars, dspVars, mic_sample, capture_sample,
                           filtered, counter>>]_vars

\* C36 witness: the thread has ended although no kill signal was ever sent
C36_Witness ==
    /\ Disconnected
    /\ proc_pc = "done"
    /\ gen >= 1

\* the thread is about to emit telemetry on a channel whose receiver is gone
EmissionDue ==
    /\ proc_pc = "compute"
    /\ debug_channel
    /\ ~plot_rx_alive
    /\ counter % TelemetryStride = 0

\* C37: with a telemetry sender set and its receiver dropped, the iteration
\* that is due to emit telemetry panics the thread instead of going on, and
\* neither that step nor any later one pushes to the output ring: the sample
\* popped in that iteration is never pushed.
C37_TelemetrySendFatal ==
    /\ [][(EmissionDue /\ proc_pc' /= "compute")
            => (proc_pc' = "panicked" /\ output_buffer' = output_buffer)]_vars
    /\ [][proc_pc = "panicked"
            => (proc_pc' = "panicked" /\ output_buffer' = output_buffer)]_vars

\* C37 witness: the thread has panicked in an iteration that had popped its
\* two samples, the telemetry sender set and its receiver gone
C37_Witness ==
    /\ proc_pc = "panicked"
    /\ debug_channel
    /\ ~plot_rx_alive
    /\ counter % TelemetryStride = 0
    /\ ~RingIsFull(output_buffer)

\* C34: tick(x) returns b0*x + b1*x1 + b2*x2 - a1*y1 - a2*y2 over the
\* delay elements the call found, and leaves x2 = the old x1, x1 = x,
\* y2 = the old y1, y1 = the result; a filter on which tick() was never
\* called has its four delay elements at 0.
C34_TickDifferenceEquation ==
    /\ [](tk.n = 0 => History(lowpass_filter) = <<Fin(0), Fin(0), Fin(0), Fin(0)>>)
    /\ [](tk.n > 0 =>
            /\ tk.y = FAdd(FAdd(FAdd(FAdd(FMul(tk.pre.b0, tk.x),
                                          FMul(tk.pre.b1, tk.pre.x_last1)),
                                     FMul(tk.pre.b2, tk.pre.x_last2)),
                                FNeg(FMul(tk.pre.a1, tk.pre.y_last1))),
                           FNeg(FMul(tk.pre.a2, tk.pre.y_last2)))
            /\ lowpass_filter.x_last2 = tk.pre.x_last1
            /\ lowpass_filter.x_last1 = tk.x
            /\ lowpass_filter.y_last2 = tk.pre.y_last1
            /\ lowpass_filter.y_last1 = tk.y)

\* C34 witness: a second call of tick() has returned a finite non-zero value
\* computed from non-zero delay elements
C34_Witness ==
    /\ tk.n >= 2
    /\ tk.pre.x_last1 /= Fin(0)
    /\ tk.pre.y_last1 /= Fin(0)
    /\ tk.y.k = "fin"
    /\ tk.y /= Fin(0)
    /\ tk.x /= tk.pre.x_last1

\* C35: the five coefficients of a filter are those Filter::new gave it,
\* whatever calls of tick() were made on it.
C35_CoefficientsFixed ==
    /\ [](Coefficients(lowpass_filter) = tk.made)
    /\ [][Coefficients(lowpass_filter') = Coefficients(lowpass_filter)]_vars

\* C35 witness: all the calls of tick() were made, the last with a non-zero
\* result
C35_Witness ==
    /\ tk.n = MaxTicks
    /\ tk.y /= Fin(0)
    /\ History(lowpass_filter) /= History(tk.pre)

\* what kill() hands back and start_thread() takes over: the channel
\* endpoints, the adaptive filter, the delay line and the biquads
EngineState ==
    <<ringVars, nlmf_filter, filter_buffer, lowpass_filter, highpass_fiter>>

\* a step of the caller in start_thread() or kill()
StartOrKillStep == main_pc' /= main_pc

\* C33: no step of start_thread() or kill() changes the rings, the weights,
\* the delay line, the biquads or the telemetry sender, so that the engine
\* kill() returns and start_thread() restarts is as the thread left it;
\* start_thread() replaces the signal channel; and the telemetry sender
\* changes only in the hands of the caller, while no thread runs.
C33_EngineKept ==
    /\ [][StartOrKillStep => UNCHANGED <<EngineState, debug_channel>>]_vars
    /\ [][(main_pc = "idle" /\ main_pc' = "spin")
             => (sig_pending' = 0 /\ sender_alive')]_vars
    /\ [][debug_channel' /= debug_channel
             => (main_pc = "idle" /\ ~ProcAlive)]_vars

\* C33 witness: a second thread has been started on an engine whose first
\* thread had pushed a reference sample to the delay line and had moved the
\* delay elements of both biquads
C33_Witness ==
    /\ gen = 2
    /\ proc_pc = "publish"
    /\ filter_buffer /= PrimedQueue
    /\ History(lowpass_filter) /= History(NewFilter(LowPassParams))
    /\ History(highpass_fiter) /= History(NewFilter(HighPassParams))
    /\ RingLen(output_buffer) > 0

\* a is an initial segment of b
StartsWith(b, a) == Len(a) <= Len(b) /\ a = SubSeq(b, 1, Len(a))

\* the j-th filtered sample pushed was computed from the j-th sample popped
\* from the microphone ring and the j-th popped from the reference ring
PairedInOrder ==
    /\ Len(trace.out) <= Len(trace.pmic)
    /\ Len(trace.out) <= Len(trace.pref)
    /\ \A j \in 1..Len(trace.out) : trace.out[j] = <<trace.pmic[j], trace.pref[j]>>

\* all that was pushed into an input ring: the zeros main() pushes before the
\* streams are built (bin/main.rs:211-218), then what the callback enqueued
Enqueued(callback) == Prefilled(RingCap, setup.nin).items \o callback

\* C32 as stated: the j-th filtered sample pushed is computed from the j-th
\* microphone sample and the j-th reference sample popped, and these are the
\* j-th samples the capture callbacks have enqueued.
C32_OrderFromCallbacks ==
    trace.on =>
        /\ PairedInOrder
        /\ StartsWith(trace.mic, trace.pmic)
        /\ StartsWith(trace.ref, trace.pref)

\* C32 amended: the j-th filtered sample pushed is computed from the j-th
\* microphone sample and the j-th reference sample popped, and these are the
\* j-th samples pushed into the respective rings, the zeros main() pushed
\* first and the samples the callbacks enqueued after them; every push to the
\* output ring, of a filtered sample or of a silence sample, appends at the
\* back and leaves what the ring held in place.
C32_OrderKept ==
    /\ [](trace.on =>
            /\ PairedInOrder
            /\ StartsWith(Enqueued(trace.mic), trace.pmic)
            /\ StartsWith(Enqueued(trace.ref), trace.pref))
    /\ [][output_buffer' /= output_buffer =>
            \/ proc_pc = "push" /\ output_buffer'.items = Append(output_buffer.items, filtered)
            \/ proc_pc = "fill" /\ output_buffer'.items = Append(output_buffer.items, 0)]_vars

\* C32 witness: after the zeros main() had pushed, the engine has filtered the
\* first pair of samples the two callbacks enqueued and pushed the result
C32_Witness ==
    /\ trace.on
    /\ setup.nin = 1
    /\ trace.out = << <<0, 0>>, <<2, 6>> >>
    /\ trace.mic = <<2, 5>>
    /\ RingLen(output_buffer) = 2

====
